---- MODULE Spec2Model ----
(***************************************************************************)
(* Copista: project / bundle persistence (source/project_manager.py).      *)
(*                                                                         *)
(* Text is a sequence of tokens.  A token is a run of ASCII letters and    *)
(* digits ("Test", "left.jpg" for a file name), one other ASCII character  *)
(* (" ", "!"), or one non-ASCII character written as its code point        *)
(* ("U+00E1").  The bytes of a file are written the same way: ASCII bytes  *)
(* as the characters, a high byte as "xC3".  Python's None is the empty    *)
(* sequence <<>> and a present value v is <<v>>.                           *)
(***************************************************************************)
EXTENDS Integers, Sequences, FiniteSets, TLC

VARIABLES fs, current_project, ret, preferred_encoding, faults,
          current_bundle_index, image_files, loading, selector, controller,
          user_manager

\* the dialog's own state: the index of the bundle on display, the image
\* files inside the project directories, the loading dialog and its thread
\* what DigitizationDialog works with besides the project: the project
\* selector, the camera's CaptureController and the UserManager
devices == <<selector, controller, user_manager>>

gui == <<current_bundle_index, image_files, loading, devices>>

vars == <<fs, current_project, ret, preferred_encoding, faults, gui>>

----------------------------------------------------------------------------
(* Bounds *)

\* project directories (the parents included) that may exist at once
MaxDirs == 3
\* bundles a project's in-memory list may hold
MaxBundles == 2
\* non-ASCII characters one string may hold (each wrongly decoded load
\* doubles them)
MaxNonAscii == 2
\* file-system errors (permission denied, disk full) injected in one run
MaxFaults == 1
\* image files the dialog may have copied into the project directories
MaxImages == 3
\* files the camera controller may have put into its download folder
MaxDownloads == 3

----------------------------------------------------------------------------
(* Text, bytes and the two codecs involved in open() *)

None == <<>>

Some(v) == <<v>>

NonAsciiChars == {"U+00E1", "U+00C3", "U+00A1", "U+0192", "U+00C2",
                  "U+00C6", "U+2019", "U+201A"}

HighBytes == {"xC3", "xA1", "x83", "xC2", "xC6", "x92", "x82"}

\* the UTF-8 encoding of one character
utf8_encode_char(c) ==
    CASE c = "U+00E1" -> <<"xC3", "xA1">>
      [] c = "U+00C3" -> <<"xC3", "x83">>
      [] c = "U+00A1" -> <<"xC2", "xA1">>
      [] c = "U+0192" -> <<"xC6", "x92">>
      [] c = "U+00C2" -> <<"xC3", "x82">>
      [] c = "U+00C6" -> <<"xC3", "x86">>
      [] OTHER -> <<c>>

RECURSIVE utf8_encode(_)
utf8_encode(s) ==
    IF s = <<>> THEN <<>>
    ELSE utf8_encode_char(Head(s)) \o utf8_encode(Tail(s))

utf8_decode_pair(b1, b2) ==
    CASE b1 = "xC3" /\ b2 = "xA1" -> "U+00E1"
      [] b1 = "xC3" /\ b2 = "x83" -> "U+00C3"
      [] b1 = "xC2" /\ b2 = "xA1" -> "U+00A1"
      [] b1 = "xC6" /\ b2 = "x92" -> "U+0192"
      [] b1 = "xC3" /\ b2 = "x82" -> "U+00C2"
      [] b1 = "xC3" /\ b2 = "x86" -> "U+00C6"
      [] OTHER -> "U+FFFD"

RECURSIVE utf8_decode(_)
utf8_decode(b) ==
    IF b = <<>> THEN <<>>
    ELSE IF Head(b) \in HighBytes /\ Len(b) >= 2
         THEN <<utf8_decode_pair(b[1], b[2])>> \o utf8_decode(SubSeq(b, 3, Len(b)))
         ELSE <<Head(b)>> \o utf8_decode(Tail(b))

\* cp1252 maps every byte to one character
cp1252_decode_byte(b) ==
    CASE b = "xC3" -> "U+00C3"
      [] b = "xA1" -> "U+00A1"
      [] b = "x83" -> "U+0192"
      [] b = "xC2" -> "U+00C2"
      [] b = "xC6" -> "U+00C6"
      [] b = "x92" -> "U+2019"
      [] b = "x82" -> "U+201A"
      [] OTHER -> b

cp1252_decode(b) == [i \in DOMAIN b |-> cp1252_decode_byte(b[i])]

Encodings == {"utf-8", "cp1252"}

\* what reading a text file opened with the given encoding yields
decode(b, encoding) ==
    IF encoding = "utf-8" THEN utf8_decode(b) ELSE cp1252_decode(b)

NonAsciiCount(s) == Cardinality({i \in DOMAIN s : s[i] \in NonAsciiChars})

----------------------------------------------------------------------------
(* JSON values: Python objects in memory, documents in a file *)

JList(s) == [t |-> "list", list |-> s, title |-> None, description |-> None]

JDict(title, description) ==
    [t |-> "dict", list |-> <<>>, title |-> title, description |-> description]

JNull == [t |-> "null", list |-> <<>>, title |-> None, description |-> None]

\* Python truthiness of a value (`not item`)
Falsy(v) == v.t = "null" \/ (v.t = "list" /\ v.list = <<>>)

MapStrings(v, F(_)) ==
    [t |-> v.t,
     list |-> [i \in DOMAIN v.list |->
                 [type |-> F(v.list[i].type),
                  images |-> [j \in DOMAIN v.list[i].images |->
                                F(v.list[i].images[j])]]],
     title |-> [i \in DOMAIN v.title |-> F(v.title[i])],
     description |-> [i \in DOMAIN v.description |-> F(v.description[i])]]

\* json.dump(..., ensure_ascii=False) into a file opened with encoding='utf-8'
json_dump(v) == MapStrings(v, utf8_encode)

\* json.load from a file opened with the given encoding
json_load(doc, encoding) == MapStrings(doc, LAMBDA b : decode(b, encoding))

Strings(v) ==
    {v.list[i].type : i \in DOMAIN v.list}
    \cup UNION {{v.list[i].images[j] : j \in DOMAIN v.list[i].images} : i \in DOMAIN v.list}
    \cup {v.title[i] : i \in DOMAIN v.title}
    \cup {v.description[i] : i \in DOMAIN v.description}

----------------------------------------------------------------------------
(* The file system: project directories, keyed by <<parent, name>>.  The   *)
(* name <<>> is the parent directory itself (os.path.join(parent, "")).    *)

base_projects_folder == "../example_projects/"

\* a file: absent, or text that is not JSON, or a JSON array, or a JSON
\* object whose value under the expected key is `key` (None: no such key)
FileContent(kind, key) == [kind |-> kind, key |-> key]

Absent == FileContent("absent", None)

Malformed == FileContent("malformed", None)

JsonArray == FileContent("array", None)

JsonObject(key) == FileContent("object", key)

EmptyDir ==
    [cache_subfolder |-> FALSE, capture_subfolder |-> FALSE,
     bundles |-> Absent, project_metadata |-> Absent]

EmptyFs == [d \in {} |-> EmptyDir]

\* os.path.join, as the text shown in messages
os_path_join(a, b) ==
    IF b = <<>> THEN a
    ELSE IF a[Len(a)] = base_projects_folder THEN a \o b
    ELSE a \o <<"/">> \o b

PathText(d) == os_path_join(<<d[1]>>, d[2])

os_path_exists(d, files) == d \in DOMAIN files

\* a directory that carries the name of a file
Directory == FileContent("directory", None)

\* os.path.isfile: a regular file is there, not a directory of that name
os_path_isfile(f) == f.kind \notin {"absent", "directory"}

\* is_copista_project(directory)
is_copista_project(d, files) ==
    IF d \in DOMAIN files /\ os_path_isfile(files[d].bundles) THEN TRUE ELSE FALSE

\* os.makedirs(d, exist_ok=True): the directory and its missing parent
os_makedirs(d, files) ==
    LET p == <<d[1], <<>>>>
    IN  [x \in DOMAIN files \cup {p, d} |->
            IF x \in DOMAIN files THEN files[x] ELSE EmptyDir]

----------------------------------------------------------------------------
(* Results.  A message is the pair (category, detail); the detail is a     *)
(* fixed text with the source's substitution as `arg`.                     *)

Message(category, text, arg) == [category |-> category, text |-> text, arg |-> arg]

----------------------------------------------------------------------------
(* class Project *)

Project(directory) ==
    [directory |-> directory,
     project_metadata |-> JDict(None, None),
     bundles |-> JList(<<>>)]

\* load_from_json without its `except json.JSONDecodeError` clause: text
\* that is not JSON falls to the generic handler
load_from_json_without_decode_clause(content, item, fault, encoding) ==
    IF content.kind = "absent"
    THEN [ok |-> FALSE,
          message |-> Some(Message("Error", "No existe {} en el proyecto",
                                   <<item, ".json">>)),
          item |-> JNull, fault |-> "none"]
    ELSE IF fault = item \o "_read"
    THEN [ok |-> FALSE,
          message |-> Some(Message("Error", "Error inesperado: {}", <<"OSError">>)),
          item |-> JNull, fault |-> fault]
    ELSE IF content.kind = "malformed"
    THEN [ok |-> FALSE,
          message |-> Some(Message("Error", "Error inesperado: {}",
                                   <<"JSONDecodeError">>)),
          item |-> JNull, fault |-> "none"]
    ELSE IF content.kind = "array"
    THEN [ok |-> FALSE,
          message |-> Some(Message("Error", "Error inesperado: {}", <<"AttributeError">>)),
          item |-> JNull, fault |-> "none"]
    ELSE LET value == IF content.key = None THEN JList(<<>>)
                      ELSE json_load(content.key[1], encoding)
         IN  [ok |-> TRUE,
              message |-> IF Falsy(value)
                          THEN Some(Message("Advertencia",
                                 "No se encontro {item_name} en el archivo JSON", <<>>))
                          ELSE None,
              item |-> value, fault |-> "none"]

\* Project.load_from_json(file, item_name); `item` is the key name, which
\* is also the file's base name without ".json"
load_from_json(content, item, fault, encoding) ==
    IF content.kind = "absent"
    THEN [ok |-> FALSE,
          message |-> Some(Message("Error", "No existe {} en el proyecto",
                                   <<item, ".json">>)),
          item |-> JNull, fault |-> "none"]
    ELSE IF fault = item \o "_read"
    THEN [ok |-> FALSE,
          message |-> Some(Message("Error", "Error inesperado: {}", <<"OSError">>)),
          item |-> JNull, fault |-> fault]
    ELSE IF content.kind = "malformed"
    THEN [ok |-> FALSE,
          message |-> Some(Message("Error", "Error al leer {filename}", <<>>)),
          item |-> JNull, fault |-> "none"]
    ELSE IF content.kind = "array"
    THEN [ok |-> FALSE,
          message |-> Some(Message("Error", "Error inesperado: {}", <<"AttributeError">>)),
          item |-> JNull, fault |-> "none"]
    ELSE LET value == IF content.key = None THEN JList(<<>>)
                      ELSE json_load(content.key[1], encoding)
         IN  [ok |-> TRUE,
              message |-> IF Falsy(value)
                          THEN Some(Message("Advertencia",
                                 "No se encontro {item_name} en el archivo JSON", <<>>))
                          ELSE None,
              item |-> value, fault |-> "none"]

\* Project.save_to_json(file, data) with data = {item: value}
save_to_json(content, directory, item, value, fault) ==
    IF fault = item \o "_open"
    THEN [ok |-> FALSE,
          message |-> Some(Message("Error", "Error actualizando {}: {}",
                        os_path_join(PathText(directory), <<item, ".json">>)
                        \o <<"OSError">>)),
          content |-> content, fault |-> fault]
    ELSE IF fault = item \o "_write"
    THEN [ok |-> FALSE,
          message |-> Some(Message("Error", "Error actualizando {}: {}",
                        os_path_join(PathText(directory), <<item, ".json">>)
                        \o <<"OSError">>)),
          content |-> Malformed, fault |-> fault]
    ELSE [ok |-> TRUE, message |-> None,
          content |-> JsonObject(Some(json_dump(value))), fault |-> "none"]

\* load_bundles storing the result before looking at the flag
load_bundles_assigning_first(self, dir, fault, encoding) ==
    LET r == load_from_json(dir.bundles, "bundles", fault, encoding)
    IN  [ok |-> r.ok, message |-> IF r.ok THEN None ELSE r.message,
         self |-> [self EXCEPT !.bundles = r.item], fault |-> r.fault]

\* Project.load_bundles()
load_bundles(self, dir, fault, encoding) ==
    LET r == load_from_json(dir.bundles, "bundles", fault, encoding)
    IN  IF ~r.ok
        THEN [ok |-> FALSE, message |-> r.message, self |-> self, fault |-> r.fault]
        ELSE [ok |-> TRUE, message |-> None,
              self |-> [self EXCEPT !.bundles = r.item], fault |-> "none"]

\* Project.save_bundles()
save_bundles(self, dir, fault) ==
    LET r == save_to_json(dir.bundles, self.directory, "bundles", self.bundles, fault)
    IN  [ok |-> r.ok, message |-> r.message,
         dir |-> [dir EXCEPT !.bundles = r.content], fault |-> r.fault]

\* Project.load_project_metadata()
load_project_metadata(self, dir, fault, encoding) ==
    LET r == load_from_json(dir.project_metadata, "project_metadata", fault, encoding)
    IN  IF ~r.ok
        THEN [ok |-> FALSE, message |-> r.message, self |-> self, fault |-> r.fault]
        ELSE [ok |-> TRUE, message |-> None,
              self |-> [self EXCEPT !.project_metadata = r.item], fault |-> "none"]

\* Project.save_project_metadata()
save_project_metadata(self, dir, fault) ==
    LET r == save_to_json(dir.project_metadata, self.directory,
                          "project_metadata", self.project_metadata, fault)
    IN  [ok |-> r.ok, message |-> r.message,
         dir |-> [dir EXCEPT !.project_metadata = r.content], fault |-> r.fault]

\* ensure_subfolders returning from inside the loop after the first folder
ensure_subfolders_first_only(self, dir, fault) ==
    IF fault = "cache_subfolder"
    THEN [ok |-> FALSE,
          message |-> Some(Message("Error", "Error al crear {}: {}",
                        os_path_join(PathText(self.directory), <<".cache">>)
                        \o <<"OSError">>)),
          dir |-> dir, fault |-> fault]
    ELSE [ok |-> TRUE, message |-> None,
          dir |-> [dir EXCEPT !.cache_subfolder = TRUE], fault |-> "none"]

\* ensure_subfolders calling os.makedirs without exist_ok=True
ensure_subfolders_without_exist_ok(self, dir, fault) ==
    IF fault = "cache_subfolder" \/ dir.cache_subfolder
    THEN [ok |-> FALSE,
          message |-> Some(Message("Error", "Error al crear {}: {}",
                        os_path_join(PathText(self.directory), <<".cache">>)
                        \o <<"OSError">>)),
          dir |-> dir, fault |-> fault]
    ELSE IF fault = "capture_subfolder" \/ dir.capture_subfolder
    THEN [ok |-> FALSE,
          message |-> Some(Message("Error", "Error al crear {}: {}",
                        os_path_join(PathText(self.directory), <<".capture">>)
                        \o <<"OSError">>)),
          dir |-> [dir EXCEPT !.cache_subfolder = TRUE], fault |-> fault]
    ELSE [ok |-> TRUE, message |-> None,
          dir |-> [dir EXCEPT !.cache_subfolder = TRUE,
                              !.capture_subfolder = TRUE],
          fault |-> "none"]

\* Project.ensure_subfolders(): .cache first, then .capture
ensure_subfolders(self, dir, fault) ==
    IF fault = "cache_subfolder"
    THEN [ok |-> FALSE,
          message |-> Some(Message("Error", "Error al crear {}: {}",
                        os_path_join(PathText(self.directory), <<".cache">>)
                        \o <<"OSError">>)),
          dir |-> dir, fault |-> fault]
    ELSE IF fault = "capture_subfolder"
    THEN [ok |-> FALSE,
          message |-> Some(Message("Error", "Error al crear {}: {}",
                        os_path_join(PathText(self.directory), <<".capture">>)
                        \o <<"OSError">>)),
          dir |-> [dir EXCEPT !.cache_subfolder = TRUE], fault |-> fault]
    ELSE [ok |-> TRUE, message |-> None,
          dir |-> [dir EXCEPT !.cache_subfolder = TRUE,
                              !.capture_subfolder = TRUE],
          fault |-> "none"]

----------------------------------------------------------------------------
(* slugify (python-slugify, default options) and the directory probe *)

\* unidecode: the ASCII transliteration of one character
unidecode(c) ==
    CASE c = "U+00E1" -> "a"
      [] c = "U+00C3" -> "A"
      [] c = "U+00C2" -> "A"
      [] c = "U+0192" -> "f"
      [] c = "U+00A1" -> "!"
      [] OTHER -> c

\* str.lower()
lower(c) ==
    CASE c = "A" -> "a"
      [] c = "My" -> "my"
      [] c = "Test" -> "test"
      [] c = "Project" -> "project"
      [] OTHER -> c

\* the tokens that are not letters or digits
Separators == {" ", "!", "?", "_", "-", ".", "/"}

slug_char(c) ==
    LET l == lower(unidecode(c))
    IN  IF l \notin Separators THEN l ELSE "-"

\* runs of other characters become one "-"; no leading "-"
RECURSIVE slug_join(_, _)
slug_join(text, acc) ==
    IF text = <<>> THEN acc
    ELSE LET c == slug_char(Head(text))
         IN  slug_join(Tail(text),
                       IF c = "-" /\ (acc = <<>> \/ acc[Len(acc)] = "-")
                       THEN acc ELSE Append(acc, c))

slugify(text) ==
    LET s == slug_join(text, <<>>)
    IN  IF s # <<>> /\ s[Len(s)] = "-" THEN SubSeq(s, 1, Len(s) - 1) ELSE s

DigitChar == <<"0", "1", "2", "3", "4", "5", "6", "7", "8", "9">>

RECURSIVE decimal(_)
decimal(n) ==
    IF n < 10 THEN <<DigitChar[n + 1]>>
    ELSE decimal(n \div 10) \o <<DigitChar[(n % 10) + 1]>>

\* f"{counter:03d}"
format_03d(counter) ==
    LET d == decimal(counter)
    IN  IF Len(d) >= 3 THEN d ELSE [i \in 1..(3 - Len(d)) |-> "0"] \o d

\* the while loop of create_project, entered with counter = 1
RECURSIVE probe_directory(_, _, _, _)
probe_directory(parent, slug, counter, files) ==
    LET new_directory == <<parent, slug \o <<"_">> \o format_03d(counter)>>
    IN  IF os_path_exists(new_directory, files)
        THEN probe_directory(parent, slug, counter + 1, files)
        ELSE new_directory

\* the probe entered with counter = 0
allocate_directory_from_zero(parent, slug, files) ==
    IF os_path_exists(<<parent, slug>>, files)
    THEN probe_directory(parent, slug, 0, files)
    ELSE <<parent, slug>>

allocate_directory(parent, slug, files) ==
    IF os_path_exists(<<parent, slug>>, files)
    THEN probe_directory(parent, slug, 1, files)
    ELSE <<parent, slug>>

----------------------------------------------------------------------------
(* class ProjectManager *)

\* what a call returned: shape "pair" is (ok, message), "bool" a bare
\* boolean, "raise" an uncaught exception; step is the last step entered
\* and fault the injected file-system error that ended it ("none": none did)
Return(shape, ok, message, step, fault) ==
    [shape |-> shape, ok |-> ok, message |-> message, step |-> step,
     fault |-> fault]

Outcome(r, files, project) == [ret |-> r, fs |-> files, current_project |-> project]

\* create_project running every step and reporting the first error at the end
create_project_without_abort(title, parent_directory, files, current, fault) ==
    IF title = None \/ title = Some(<<>>)
    THEN Outcome(Return("bool", FALSE, None, "title", "none"), files, current)
    ELSE
    LET slug == slugify(title[1])
        parent == IF parent_directory # None THEN parent_directory[1]
                  ELSE base_projects_folder
        new_directory == allocate_directory(parent, slug, files)
        new_project == [Project(new_directory) EXCEPT
                          !.project_metadata.title = title]
        made == os_makedirs(new_directory, files)
        sub == ensure_subfolders(new_project, made[new_directory], fault)
        sb == save_bundles(new_project, sub.dir, fault)
        sm == save_project_metadata(new_project, sb.dir, fault)
        files_sm == [made EXCEPT ![new_directory] = sm.dir]
        mkdir_message ==
            Some(Message("Error", "Error al crear {}: {}",
                         PathText(new_directory) \o <<"OSError">>))
    IN  IF fault = "makedirs"
        THEN Outcome(Return("pair", FALSE, mkdir_message, "makedirs", fault),
                     files, current)
        ELSE IF fault = "makedirs_leaf" /\ new_directory[2] # <<>>
        THEN Outcome(Return("pair", FALSE, mkdir_message, "makedirs", fault),
                     os_makedirs(<<parent, <<>>>>, files), current)
        ELSE IF ~sub.ok
        THEN Outcome(Return("pair", FALSE, sub.message, "ensure_subfolders", sub.fault),
                     files_sm, current)
        ELSE IF ~sb.ok
        THEN Outcome(Return("pair", FALSE, sb.message, "save_bundles", sb.fault),
                     files_sm, current)
        ELSE IF ~sm.ok
        THEN Outcome(Return("pair", FALSE, sm.message, "save_project_metadata", sm.fault),
                     files_sm, current)
        ELSE Outcome(Return("pair", TRUE, None, "done", "none"),
                     files_sm, Some(new_project))

\* create_project storing the new Project in current_project as soon as it
\* is constructed
create_project_assigning_first(title, parent_directory, files, current, fault) ==
    IF title = None \/ title = Some(<<>>)
    THEN Outcome(Return("bool", FALSE, None, "title", "none"), files, current)
    ELSE
    LET slug == slugify(title[1])
        parent == IF parent_directory # None THEN parent_directory[1]
                  ELSE base_projects_folder
        new_directory == allocate_directory(parent, slug, files)
        new_project == [Project(new_directory) EXCEPT
                          !.project_metadata.title = title]
        made == os_makedirs(new_directory, files)
        sub == ensure_subfolders(new_project, made[new_directory], fault)
        files_sub == [made EXCEPT ![new_directory] = sub.dir]
        sb == save_bundles(new_project, sub.dir, fault)
        files_sb == [made EXCEPT ![new_directory] = sb.dir]
        sm == save_project_metadata(new_project, sb.dir, fault)
        files_sm == [made EXCEPT ![new_directory] = sm.dir]
        mkdir_message ==
            Some(Message("Error", "Error al crear {}: {}",
                         PathText(new_directory) \o <<"OSError">>))
    IN  IF fault = "makedirs"
        THEN Outcome(Return("pair", FALSE, mkdir_message, "makedirs", fault), files, Some(new_project))
        ELSE IF fault = "makedirs_leaf" /\ new_directory[2] # <<>>
        THEN Outcome(Return("pair", FALSE, mkdir_message, "makedirs", fault),
                     os_makedirs(<<parent, <<>>>>, files), Some(new_project))
        ELSE IF ~sub.ok
        THEN Outcome(Return("pair", FALSE, sub.message, "ensure_subfolders", sub.fault),
                     files_sub, Some(new_project))
        ELSE IF ~sb.ok
        THEN Outcome(Return("pair", FALSE, sb.message, "save_bundles", sb.fault),
                     files_sb, Some(new_project))
        ELSE IF ~sm.ok
        THEN Outcome(Return("pair", FALSE, sm.message, "save_project_metadata", sm.fault),
                     files_sm, Some(new_project))
        ELSE Outcome(Return("pair", TRUE, None, "done", "none"), files_sm, Some(new_project))

\* ProjectManager.create_project(title, parent_directory)
create_project(title, parent_directory, files, current, fault) ==
    IF title = None \/ title = Some(<<>>)
    THEN Outcome(Return("bool", FALSE, None, "title", "none"), files, current)
    ELSE
    LET slug == slugify(title[1])
        parent == IF parent_directory # None THEN parent_directory[1]
                  ELSE base_projects_folder
        new_directory == allocate_directory(parent, slug, files)
        new_project == [Project(new_directory) EXCEPT
                          !.project_metadata.title = title]
        made == os_makedirs(new_directory, files)
        sub == ensure_subfolders(new_project, made[new_directory], fault)
        files_sub == [made EXCEPT ![new_directory] = sub.dir]
        sb == save_bundles(new_project, sub.dir, fault)
        files_sb == [made EXCEPT ![new_directory] = sb.dir]
        sm == save_project_metadata(new_project, sb.dir, fault)
        files_sm == [made EXCEPT ![new_directory] = sm.dir]
        mkdir_message ==
            Some(Message("Error", "Error al crear {}: {}",
                         PathText(new_directory) \o <<"OSError">>))
    IN  IF fault = "makedirs"
        THEN Outcome(Return("pair", FALSE, mkdir_message, "makedirs", fault), files, current)
        ELSE IF fault = "makedirs_leaf" /\ new_directory[2] # <<>>
        THEN Outcome(Return("pair", FALSE, mkdir_message, "makedirs", fault),
                     os_makedirs(<<parent, <<>>>>, files), current)
        ELSE IF ~sub.ok
        THEN Outcome(Return("pair", FALSE, sub.message, "ensure_subfolders", sub.fault),
                     files_sub, current)
        ELSE IF ~sb.ok
        THEN Outcome(Return("pair", FALSE, sb.message, "save_bundles", sb.fault),
                     files_sb, current)
        ELSE IF ~sm.ok
        THEN Outcome(Return("pair", FALSE, sm.message, "save_project_metadata", sm.fault),
                     files_sm, current)
        ELSE Outcome(Return("pair", TRUE, None, "done", "none"), files_sm, Some(new_project))

\* load_project storing the new Project in current_project before loading it
load_project_assigning_first(directory, files, current, fault, encoding) ==
    IF ~os_path_exists(directory, files)
    THEN Outcome(Return("raise", FALSE, None, "exists", "none"), files, current)
    ELSE
    LET project == Project(directory)
        lb == load_bundles(project, files[directory], fault, encoding)
        sub == ensure_subfolders(lb.self, files[directory], fault)
        files_sub == [files EXCEPT ![directory] = sub.dir]
        lm == load_project_metadata(lb.self, sub.dir, fault, encoding)
    IN  IF ~lb.ok
        THEN Outcome(Return("pair", FALSE, lb.message, "load_bundles", lb.fault),
                     files, Some(lb.self))
        ELSE IF ~sub.ok
        THEN Outcome(Return("pair", FALSE, lb.message, "ensure_subfolders", sub.fault),
                     files_sub, Some(lb.self))
        ELSE IF ~lm.ok
        THEN Outcome(Return("pair", FALSE, lm.message, "load_project_metadata", lm.fault),
                     files_sub, Some(lm.self))
        ELSE Outcome(Return("pair", TRUE, lm.message, "done", "none"),
                     files_sub, Some(lm.self))

\* ProjectManager.load_project(directory)
load_project(directory, files, current, fault, encoding) ==
    IF ~os_path_exists(directory, files)
    THEN Outcome(Return("raise", FALSE, None, "exists", "none"), files, current)
    ELSE
    LET project == Project(directory)
        lb == load_bundles(project, files[directory], fault, encoding)
        sub == ensure_subfolders(lb.self, files[directory], fault)
        files_sub == [files EXCEPT ![directory] = sub.dir]
        lm == load_project_metadata(lb.self, sub.dir, fault, encoding)
    IN  IF ~lb.ok
        THEN Outcome(Return("pair", FALSE, lb.message, "load_bundles", lb.fault), files, current)
        ELSE IF ~sub.ok
        THEN Outcome(Return("pair", FALSE, lb.message, "ensure_subfolders", sub.fault),
                     files_sub, current)
        ELSE IF ~lm.ok
        THEN Outcome(Return("pair", FALSE, lm.message, "load_project_metadata", lm.fault),
                     files_sub, current)
        ELSE Outcome(Return("pair", TRUE, lm.message, "done", "none"), files_sub, Some(lm.self))

----------------------------------------------------------------------------
(* Inputs *)

TitleMyTestProject == <<"My", " ", "Test", " ", "Project">>

\* the title "¡!", whose slug is empty
TitleNoSlug == <<"U+00A1", "!">>

\* None, "", "My Test Project" and "¡!"
Titles == {None, Some(<<>>), Some(TitleMyTestProject), Some(TitleNoSlug)}

\* the only caller passes parent_directory=None
ParentDirectories == {None}

MissingDirectory == <<base_projects_folder, <<"none">>>>

GenericBundle(images) == [type |-> <<"generic">>, images |-> images]

SampleBundles ==
    {GenericBundle(<<<<"left.jpg">>, <<"right.jpg">>>>),
     GenericBundle(<<<<"p", "U+00E1", "gina.jpg">>>>)}

ExternalBundlesContents == {Absent, Malformed, JsonArray, JsonObject(None)}

ExternalMetadataContents == {Absent, Malformed, JsonObject(None)}

\* a project that is already in the base folder when the program starts
ExampleDirectory == <<base_projects_folder, <<"example">>>>

ExampleDir ==
    [cache_subfolder |-> TRUE, capture_subfolder |-> FALSE,
     bundles |-> JsonObject(Some(json_dump(JList(
                    <<GenericBundle(<<<<"p", "U+00E1", "gina.jpg">>>>)>>)))),
     project_metadata |-> JsonObject(Some(json_dump(
                    JDict(Some(<<"Ejemplo">>), None))))]

BaseOnly == os_makedirs(<<base_projects_folder, <<>>>>, EmptyFs)

BaseWithExample ==
    [d \in {<<base_projects_folder, <<>>>>, ExampleDirectory} |->
        IF d = ExampleDirectory THEN ExampleDir ELSE EmptyDir]

\* every string of the project stays within the tabulated characters
WithinRepertoire(project) ==
    \A v \in {project.bundles, project.project_metadata} :
        \A str \in Strings(v) : NonAsciiCount(str) <= MaxNonAscii

----------------------------------------------------------------------------
(* The lists and files the dialog works on *)

\* list.append(x) in place of list.insert(index, x)
list_insert_appending(s, index, x) == s \o <<x>>

\* list.insert(index, x) for index >= 0: an index past the end appends
list_insert(s, index, x) ==
    LET i == IF index > Len(s) THEN Len(s) ELSE index
    IN  SubSeq(s, 1, i) \o <<x>> \o SubSeq(s, i + 1, Len(s))

\* list.pop(index) for index >= 0; raises IndexError past the end
list_pop(s, index) ==
    IF index >= Len(s)
    THEN [raised |-> TRUE, list |-> s]
    ELSE [raised |-> FALSE,
          list |-> SubSeq(s, 1, index) \o SubSeq(s, index + 2, Len(s))]

\* s[index] raises IndexError: Python counts a negative index from the end
IndexError(s, index) == index >= Len(s) \/ index < 0 - Len(s)

\* the image files that come with the example project
ExampleImages == {<<ExampleDirectory, <<"p", "U+00E1", "gina.jpg">>>>}

ImageFiles(files) ==
    IF ExampleDirectory \in DOMAIN files THEN ExampleImages ELSE {}

\* no loading dialog is open and no worker thread runs
\* main and worker are the places the two threads are at, result and error
\* the two one-element lists of run_with_loading_dialog, after the callbacks
\* waiting in Tk's queue, dialog the loading window; outcome and posted
\* record how operation_func ended and how many callbacks were posted
NoLoading ==
    [main |-> "idle", worker |-> "none", result |-> None, error |-> None,
     after |-> 0, dialog |-> "none", outcome |-> "none", posted |-> 0]

\* run_with_loading_dialog up to wait_window: the window and the thread
start_loading ==
    [main |-> "wait_window", worker |-> "operation", result |-> None,
     error |-> None, after |-> 0, dialog |-> "open", outcome |-> "none",
     posted |-> 0]

\* worker(): the try block, operation_func having returned value
worker_returned(l, value) ==
    [l EXCEPT !.result = Some(value), !.outcome = "returned", !.worker = "finally"]

\* worker(): the except block, operation_func having raised
worker_raised(l) ==
    [l EXCEPT !.error = Some("Exception"), !.outcome = "raised", !.worker = "finally"]

\* a worker whose callback is posted at the end of the try block only
worker_finally_after_try(l) ==
    IF l.error = None
    THEN [l EXCEPT !.after = @ + 1, !.posted = @ + 1, !.worker = "finished"]
    ELSE [l EXCEPT !.worker = "finished"]

\* worker(): the finally block, parent.after(0, close)
worker_finally(l) ==
    [l EXCEPT !.after = @ + 1, !.posted = @ + 1, !.worker = "finished"]

\* LoadingDialog.close(), run by the event loop inside wait_window
loading_dialog_close(l) ==
    [l EXCEPT !.after = @ - 1, !.dialog = "destroyed"]

----------------------------------------------------------------------------
(* file_utils.copy_image_to_directory and DigitizationDialog *)

\* an image path handed to the dialog: the file's name, with the extension
\* as its last token, and whether the file is there when it is looked at
ImagePath(name, exists) == [name |-> name, exists |-> exists]

CopyFault(k) == <<"copy_1", "copy_2", "copy_3">>[k]

\* shutil.copy2 failing after it created the destination file
PartialCopyFault(k) == <<"copy_partial_1", "copy_partial_2", "copy_partial_3">>[k]

\* f"{base_name}_{counter:03d}{extension}"
numbered_filename(name, counter) ==
    SubSeq(name, 1, Len(name) - 1) \o <<"_">> \o format_03d(counter)
        \o <<name[Len(name)]>>

\* a probe that takes the first numbered name as it is
probe_filename_once(name, counter, dest_directory, images) ==
    numbered_filename(name, counter)

\* the while loop of copy_image_to_directory, entered with counter = 1
RECURSIVE probe_filename(_, _, _, _)
probe_filename(name, counter, dest_directory, images) ==
    LET dest_filename == numbered_filename(name, counter)
    IN  IF <<dest_directory, dest_filename>> \in images
        THEN probe_filename(name, counter + 1, dest_directory, images)
        ELSE dest_filename

\* copy_image_to_directory(source_path, dest_directory), as the k-th copy
\* of a call
copy_image_to_directory(source_path, dest_directory, images, k, fault) ==
    IF ~source_path.exists
    THEN [filename |-> None, images |-> images, fault |-> "none"]
    ELSE
    LET dest_filename ==
            IF <<dest_directory, source_path.name>> \in images
            THEN probe_filename(source_path.name, 1, dest_directory, images)
            ELSE source_path.name
    IN  IF fault = CopyFault(k)
        THEN [filename |-> None, images |-> images, fault |-> fault]
        ELSE IF fault = PartialCopyFault(k)
        THEN [filename |-> None,
              images |-> images \cup {<<dest_directory, dest_filename>>},
              fault |-> fault]
        ELSE [filename |-> Some(dest_filename),
              images |-> images \cup {<<dest_directory, dest_filename>>},
              fault |-> "none"]

\* ProjectManager._cleanup_copied_files(filenames)
cleanup_copied_files(filenames, directory, images) ==
    images \ {<<directory, filenames[i]>> : i \in DOMAIN filenames}

\* the for loop of add_bundle_from_images from its k-th path on
RECURSIVE copy_images(_, _, _, _, _, _)
copy_images(image_paths, k, copied_filenames, directory, images, fault) ==
    IF k > Len(image_paths)
    THEN [ok |-> TRUE, copied_filenames |-> copied_filenames,
          images |-> images, step |-> "copied", fault |-> "none"]
    ELSE IF ~image_paths[k].exists
    THEN [ok |-> FALSE, copied_filenames |-> copied_filenames,
          images |-> images, step |-> "exists", fault |-> "none"]
    ELSE
    LET c == copy_image_to_directory(image_paths[k], directory, images, k, fault)
    IN  IF c.filename = None
        THEN [ok |-> FALSE, copied_filenames |-> copied_filenames,
              images |-> cleanup_copied_files(copied_filenames, directory, c.images),
              step |-> "copy", fault |-> c.fault]
        ELSE copy_images(image_paths, k + 1,
                         Append(copied_filenames, c.filename[1]),
                         directory, c.images, fault)

\* a check of the number of paths that lets the empty list through
valid_image_paths_at_most_3(image_paths) == Len(image_paths) <= 3

\* the first test of add_bundle_from_images: between 1 and 3 paths
valid_image_paths(image_paths) ==
    ~(Len(image_paths) = 0 \/ Len(image_paths) > 3)

\* what add_bundle_from_images returned and left behind: step is the place
\* where it ended
Added(value, step, project, index, dir, images, fault) ==
    [value |-> value, step |-> step, project |-> project, index |-> index,
     dir |-> dir, images |-> images, fault |-> fault]

\* DigitizationDialog.add_bundle_from_images(image_paths); the project is
\* current_project, index is current_bundle_index and dir the project's
\* directory on disk
add_bundle_from_images(image_paths, project, index, dir, images, fault) ==
    IF ~valid_image_paths(image_paths)
    THEN Added(FALSE, "validate", project, index, dir, images, "none")
    ELSE
    LET c == copy_images(image_paths, 1, <<>>, project.directory, images, fault)
        new_bundle == GenericBundle(c.copied_filenames)
        insert_position == index + 1
        inserted == [project EXCEPT
                        !.bundles.list = list_insert(@, insert_position, new_bundle)]
        sb == save_bundles(inserted, dir, fault)
        popped == list_pop(inserted.bundles.list, insert_position)
    IN  IF ~c.ok
        THEN Added(FALSE, c.step, project, index, dir, c.images, c.fault)
        ELSE IF project.bundles.t # "list"
        THEN Added(FALSE, "insert", project, index, dir, c.images, "none")
        ELSE IF sb.ok
        THEN IF IndexError(inserted.bundles.list, insert_position)
             THEN Added(FALSE, "show_current_bundle", inserted, insert_position,
                        sb.dir, c.images, "none")
             ELSE Added(TRUE, "done", inserted, insert_position, sb.dir,
                        c.images, "none")
        ELSE IF popped.raised
        THEN Added(FALSE, "pop", inserted, index, sb.dir, c.images, sb.fault)
        ELSE Added(FALSE, "save_bundles",
                   [inserted EXCEPT !.bundles.list = popped.list], index, sb.dir,
                   cleanup_copied_files(c.copied_filenames, project.directory,
                                        c.images),
                   sb.fault)

\* run_with_loading_dialog, after wait_window: raise error[0] or return
\* result[0]
run_with_loading_dialog_return(result, error) ==
    IF error # None
    THEN [shape |-> "raise", value |-> None]
    ELSE [shape |-> "value", value |-> result]

\* titles the new-project dialog lets through (three characters or more)
DialogTitles == {Some(TitleMyTestProject)}

LeftJpg == <<"left", ".jpg">>

RightJpg == <<"right", ".jpg">>

\* the path lists handed to add_bundle_from_images: none, one to three
\* paths, a path whose file is gone, the same file twice, and four paths
ImagePathLists ==
    {<<>>,
     <<ImagePath(LeftJpg, TRUE)>>,
     <<ImagePath(LeftJpg, TRUE), ImagePath(RightJpg, TRUE)>>,
     <<ImagePath(LeftJpg, TRUE), ImagePath(RightJpg, FALSE)>>,
     <<ImagePath(LeftJpg, TRUE), ImagePath(LeftJpg, TRUE), ImagePath(RightJpg, TRUE)>>,
     <<ImagePath(LeftJpg, TRUE), ImagePath(RightJpg, TRUE),
       ImagePath(LeftJpg, TRUE), ImagePath(RightJpg, TRUE)>>}

\* the faults that can end one add_bundle_from_images call
AddFaults ==
    {"none", "bundles_open", "bundles_write"}
    \cup {CopyFault(k) : k \in 1..3} \cup {PartialCopyFault(k) : k \in 1..3}

----------------------------------------------------------------------------
(* gui.file_selector_dialog: the project selector.  A path of the selector *)
(* is the sequence of names below base_projects_folder; the folders above  *)
(* it are left out.                                                        *)

\* the two emoji that start a listbox item
Robot == "U+1F916"

Folder == "U+1F4C1"

\* the item shown in place of a list that could not be read
ErrorItem(text) == <<"[", text, "]">>

\* the names the projects folder may hold, in the order of items.sort()
SortedNames == << <<".", "hidden">>, <<"example">>, <<"plain">>, <<"scans">> >>

\* the key of the file system a path of the selector stands for
SelectorKey(path) ==
    IF path = <<>> THEN <<base_projects_folder, <<>>>>
    ELSE IF Len(path) = 1 THEN <<base_projects_folder, path[1]>>
    ELSE <<PathText(<<base_projects_folder, path[1]>>), Tail(path)>>

\* os.listdir(path) with os.path.isdir of every name, in sorted order
os_listdir(path, files) ==
    LET d == SelectorKey(path)
    IN  IF path = <<>>
        THEN [raised |-> d \notin DOMAIN files,
              entries |->
                LET present == SelectSeq(SortedNames,
                        LAMBDA n : <<base_projects_folder, n>> \in DOMAIN files)
                IN  [i \in DOMAIN present |-> [name |-> present[i], isdir |-> TRUE]]]
        ELSE IF Len(path) = 1 /\ d \in DOMAIN files
        THEN [raised |-> FALSE,
              entries |->
                (IF files[d].cache_subfolder
                 THEN <<[name |-> <<".", "cache">>, isdir |-> TRUE]>> ELSE <<>>)
                \o (IF files[d].capture_subfolder
                    THEN <<[name |-> <<".", "capture">>, isdir |-> TRUE]>> ELSE <<>>)
                \o (IF files[d].bundles.kind # "absent"
                    THEN <<[name |-> <<"bundles.json">>, isdir |-> files[d].bundles.kind = "directory"]>>
                    ELSE <<>>)
                \o (IF files[d].project_metadata.kind # "absent"
                    THEN <<[name |-> <<"project_metadata.json">>, isdir |-> FALSE]>> ELSE <<>>)]
        ELSE IF /\ Len(path) = 2
                /\ <<base_projects_folder, path[1]>> \in DOMAIN files
                /\ path[2] = <<"bundles.json">>
                /\ files[<<base_projects_folder, path[1]>>].bundles.kind = "directory"
        THEN [raised |-> FALSE, entries |-> <<>>]
        ELSE [raised |-> TRUE, entries |-> <<>>]

\* str.startswith
startswith(item, prefix) ==
    Len(item) >= Len(prefix) /\ SubSeq(item, 1, Len(prefix)) = prefix

\* item[2:]
dir_name(item) == SubSeq(item, 3, Len(item))

\* no selector dialog: `listed` records, for the list on display, the
\* paths is_copista_project held for and the paths it did not hold for
NoSelector ==
    [dialog |-> "none", current_path |-> <<>>, listbox |-> <<>>,
     selected_directory |-> None,
     listed |-> [project |-> {}, plain |-> {}]]

\* ProjectSelector.load_directory; fault "listdir" is the PermissionError
load_directory(self, path, files, fault) ==
    LET ls == os_listdir(path, files)
        items == SelectSeq(ls.entries, LAMBDA e : e.name[1] # "." /\ e.isdir)
        held == [i \in DOMAIN items |->
                    is_copista_project(SelectorKey(path \o <<items[i].name>>), files)]
        shown == [i \in DOMAIN items |->
                    (IF held[i] THEN <<Robot, " ">> ELSE <<Folder, " ">>)
                    \o items[i].name]
        ok == fault = "none" /\ ~ls.raised
    IN  [self EXCEPT
            !.current_path = path,
            !.listbox = IF fault = "listdir" THEN <<ErrorItem("Sin permisos para leer este directorio")>>
                        ELSE IF ls.raised THEN <<ErrorItem("Error")>>
                        ELSE shown,
            !.listed = [project |-> IF ok THEN {path \o <<items[i].name>> :
                                                  i \in {j \in DOMAIN items : held[j]}}
                                    ELSE {},
                        plain |-> IF ok THEN {path \o <<items[i].name>> :
                                                i \in {j \in DOMAIN items : ~held[j]}}
                                  ELSE {}]]

select_current(self) ==
    [self EXCEPT !.selected_directory = Some(self.current_path),
                 !.dialog = "destroyed"]

\* a selection that takes any item, whatever its emoji
select_selection_of_any_item(self, selection) ==
    IF selection # None
    THEN select_current([self EXCEPT !.current_path =
                            @ \o <<dir_name(self.listbox[selection[1]])>>])
    ELSE self

\* ProjectSelector.select_selection; the two warnings change nothing
select_selection(self, selection) ==
    IF selection # None
    THEN LET item == self.listbox[selection[1]]
         IN  IF startswith(item, <<Robot, " ">>)
             THEN select_current([self EXCEPT !.current_path =
                                     @ \o <<dir_name(item)>>])
             ELSE self
    ELSE self

on_double_click(self, selection, files, fault) ==
    IF selection # None
    THEN LET item == self.listbox[selection[1]]
         IN  IF startswith(item, <<Folder, " ">>)
             THEN load_directory(self, self.current_path \o <<dir_name(item)>>,
                                 files, fault)
             ELSE IF startswith(item, <<Robot, " ">>)
             THEN select_current([self EXCEPT !.current_path =
                                     @ \o <<dir_name(item)>>])
             ELSE self
    ELSE self

go_up(self, files, fault) ==
    LET parent_path == SubSeq(self.current_path, 1, Len(self.current_path) - 1)
    IN  IF parent_path # self.current_path
        THEN load_directory(self, parent_path, files, fault)
        ELSE self

cancel(self) ==
    [self EXCEPT !.selected_directory = None, !.dialog = "destroyed"]

\* the projects folder with a project, a plain folder, a hidden project
\* and a folder that holds a directory named bundles.json
SelectorFs ==
    [d \in {<<base_projects_folder, <<>>>>} \cup
           {<<base_projects_folder, SortedNames[i]>> : i \in DOMAIN SortedNames} |->
        IF d[2] \in {<<"example">>, <<".", "hidden">>} THEN ExampleDir
        ELSE IF d[2] = <<"scans">> THEN [EmptyDir EXCEPT !.bundles = Directory]
        ELSE EmptyDir]

----------------------------------------------------------------------------
(* cam_utils.gphoto2_capture_controller.CaptureController.  `live` records *)
(* that the latest connect() returned True and no disconnect() came after  *)
(* it; downloads counts the files in the download folder.                  *)

\* CaptureController.__init__
NoCamera ==
    [camera |-> "None", context |-> "None", live |-> FALSE, downloads |-> 0]

\* CaptureController.connect; Context() and Camera() come first
connect(self, outcome) ==
    [self EXCEPT !.context = "Context", !.camera = "Camera",
                 !.live = (outcome = "ok")]

\* CaptureController.disconnect, whether camera.exit raises or not
disconnect(self, exit_raises) ==
    [self EXCEPT !.camera = "None", !.context = "None", !.live = FALSE]

\* the four operations on the camera: the test of self.camera, then the
\* SDK calls, which fail or succeed; `stores` tells an operation that puts
\* a file into the download folder
camera_operation(self, stores, sdk_error) ==
    IF self.camera = "None"
    THEN [self |-> self, sdk |-> FALSE, failed |-> TRUE]
    ELSE IF sdk_error
    THEN [self |-> self, sdk |-> TRUE, failed |-> TRUE]
    ELSE [self |-> IF stores THEN [self EXCEPT !.downloads = @ + 1] ELSE self,
          sdk |-> TRUE, failed |-> FALSE]

----------------------------------------------------------------------------
(* gui.user_manager_dialog.UserManager.  A user record keeps its name, its *)
(* type, its display name and its password hash (None for a system user,   *)
(* whose record has no such key); `file` is what users.json holds.  User   *)
(* names are the entries' text after strip(); "system_user" stands for     *)
(* "system_" followed by the login name of the operating system's user.    *)

\* hashlib.sha256(password.encode()).hexdigest()
hash_password(password) == <<"sha256", password>>

\* no UserManager yet; users.json holds `file`
NoUserManager ==
    [root |-> "none", current_view |-> "login", current_user |-> None,
     users_data |-> <<>>, file |-> <<>>]

\* save_users_data(): the file takes users_data unless the write fails
save_users_data(self, fault) ==
    IF fault = "none" THEN [self EXCEPT !.file = self.users_data] ELSE self

\* UserManager.login_as_system_user; system_user is the login name
login_as_system_user(self, fault) ==
    LET username == "system_user"
        users == IF username \notin DOMAIN self.users_data
                 THEN (username :> [username |-> username, type |-> "system",
                                display_name |-> "System",
                                password_hash |-> None]) @@ self.users_data
                 ELSE self.users_data
    IN  [save_users_data([self EXCEPT !.users_data = users,
                                      !.current_user = Some(users[username])],
                         fault)
            EXCEPT !.root = "destroyed"]

\* a login that does not compare the password hashes
login_user_of_any_password(self, username, password, fault) ==
    IF username = "" \/ password = "" THEN self
    ELSE IF username \notin DOMAIN self.users_data THEN self
    ELSE save_users_data([self EXCEPT
                            !.current_user = Some(self.users_data[username]),
                            !.current_view = "profile"], fault)

\* UserManager.login_user
login_user(self, username, password, fault) ==
    IF username = "" \/ password = "" THEN self
    ELSE IF username \notin DOMAIN self.users_data THEN self
    ELSE IF self.users_data[username].password_hash # Some(hash_password(password))
    THEN self
    ELSE save_users_data([self EXCEPT
                            !.current_user = Some(self.users_data[username]),
                            !.current_view = "profile"], fault)

\* UserManager.register_user
register_user(self, username, fullname, password, password_confirm, fault) ==
    IF username = "" \/ fullname = "" \/ password = "" THEN self
    ELSE IF password # password_confirm THEN self
    ELSE IF username \in DOMAIN self.users_data THEN self
    ELSE
    LET created == [self EXCEPT !.users_data =
                        (username :> [username |-> username, type |-> "custom",
                                      display_name |-> fullname,
                                      password_hash |->
                                          Some(hash_password(password))]) @@ @]
    IN  IF fault = "none"
        THEN [save_users_data(created, fault) EXCEPT
                !.current_user = Some(created.users_data[username]),
                !.current_view = "profile"]
        ELSE created

----------------------------------------------------------------------------
(* State machine *)

Call(op, title, parent, directory, r) ==
    [op |-> op, title |-> title, parent |-> parent, directory |-> directory,
     fault |-> r.fault, shape |-> r.shape, ok |-> r.ok, message |-> r.message,
     step |-> r.step]

\* counts the injected file-system errors
Inject(fault) ==
    /\ faults' = faults + (IF fault = "none" THEN 0 ELSE 1)
    /\ faults' <= MaxFaults

Init ==
    /\ faults = 0
    /\ fs \in {EmptyFs, BaseOnly, BaseWithExample}
    /\ current_project = None
    /\ ret = Call("init", None, None, None, Return("pair", TRUE, None, "done", "none"))
    /\ preferred_encoding \in Encodings
    /\ current_bundle_index = 0
    /\ image_files = ImageFiles(fs)
    /\ loading = NoLoading
    /\ selector = NoSelector
    /\ controller = NoCamera
    /\ user_manager = NoUserManager

CreateProject ==
    \E title \in Titles, parent \in ParentDirectories,
       fault \in {"none", "makedirs", "makedirs_leaf", "cache_subfolder",
                  "capture_subfolder", "bundles_open", "bundles_write",
                  "project_metadata_open", "project_metadata_write"} :
        /\ fault = "none" \/ faults < MaxFaults
        /\ LET o == create_project(title, parent, fs, current_project, fault)
           IN
            /\ Cardinality(DOMAIN o.fs) <= MaxDirs
            /\ fs' = o.fs
            /\ current_project' = o.current_project
            /\ ret' = Call("create_project", title, parent, None, o.ret)
            /\ Inject(o.ret.fault)
            /\ UNCHANGED <<preferred_encoding, gui>>

LoadProject ==
    \E directory \in DOMAIN fs \cup {MissingDirectory},
       fault \in {"none", "bundles_read", "cache_subfolder",
                  "capture_subfolder", "project_metadata_read"} :
        /\ fault = "none" \/ faults < MaxFaults
        /\ LET o == load_project(directory, fs, current_project, fault, preferred_encoding)
           IN
            /\ o.current_project # None => WithinRepertoire(o.current_project[1])
            /\ fs' = o.fs
            /\ current_project' = o.current_project
            /\ ret' = Call("load_project", None, None, Some(directory), o.ret)
            /\ Inject(o.ret.fault)
            /\ UNCHANGED <<preferred_encoding, gui>>

LoadBundles ==
    /\ current_project # None
    /\ \E fault \in {"none", "bundles_read"} :
        LET self == current_project[1]
            r == load_bundles(self, fs[self.directory], fault, preferred_encoding)
        IN  /\ WithinRepertoire(r.self)
            /\ current_project' = Some(r.self)
            /\ ret' = Call("load_bundles", None, None, Some(self.directory),
                           Return("pair", r.ok, r.message, "done", r.fault))
            /\ Inject(r.fault)
            /\ UNCHANGED <<fs, preferred_encoding, gui>>

SaveBundles ==
    /\ current_project # None
    /\ \E fault \in {"none", "bundles_open", "bundles_write"} :
        LET self == current_project[1]
            r == save_bundles(self, fs[self.directory], fault)
        IN  /\ fs' = [fs EXCEPT ![self.directory] = r.dir]
            /\ ret' = Call("save_bundles", None, None, Some(self.directory),
                           Return("pair", r.ok, r.message, "done", r.fault))
            /\ Inject(r.fault)
            /\ UNCHANGED <<current_project, preferred_encoding, gui>>

LoadProjectMetadata ==
    /\ current_project # None
    /\ \E fault \in {"none", "project_metadata_read"} :
        LET self == current_project[1]
            r == load_project_metadata(self, fs[self.directory], fault, preferred_encoding)
        IN  /\ WithinRepertoire(r.self)
            /\ current_project' = Some(r.self)
            /\ ret' = Call("load_project_metadata", None, None, Some(self.directory), Return("pair", r.ok, r.message, "done", r.fault))
            /\ Inject(r.fault)
            /\ UNCHANGED <<fs, preferred_encoding, gui>>

SaveProjectMetadata ==
    /\ current_project # None
    /\ \E fault \in {"none", "project_metadata_open", "project_metadata_write"} :
        LET self == current_project[1]
            r == save_project_metadata(self, fs[self.directory], fault)
        IN  /\ fs' = [fs EXCEPT ![self.directory] = r.dir]
            /\ ret' = Call("save_project_metadata", None, None, Some(self.directory), Return("pair", r.ok, r.message, "done", r.fault))
            /\ Inject(r.fault)
            /\ UNCHANGED <<current_project, preferred_encoding, gui>>

EnsureSubfolders ==
    /\ current_project # None
    /\ \E fault \in {"none", "cache_subfolder", "capture_subfolder"} :
        LET self == current_project[1]
            r == ensure_subfolders(self, fs[self.directory], fault)
        IN  /\ fs' = [fs EXCEPT ![self.directory] = r.dir]
            /\ ret' = [repeated |-> (ret.op = "ensure_subfolders" /\ ret.ok)]
                      @@ Call("ensure_subfolders", None, None, Some(self.directory),
                              Return("pair", r.ok, r.message, "done", r.fault))
            /\ Inject(r.fault)
            /\ UNCHANGED <<current_project, preferred_encoding, gui>>

\* the caller's in-memory insert into Project.bundles, at any position it
\* can ask for: current_bundle_index + 1 is at most len(bundles) + 1
InsertBundle ==
    /\ current_project # None
    /\ current_project[1].bundles.t = "list"
    /\ Len(current_project[1].bundles.list) < MaxBundles
    /\ \E b \in SampleBundles, i \in 0..(Len(current_project[1].bundles.list) + 1) :
        /\ current_project' =
              Some([current_project[1] EXCEPT
                      !.bundles.list = list_insert(@, i, b)])
        /\ ret' = [position |-> i, bundle |-> b]
                  @@ Call("insert", None, None, Some(current_project[1].directory),
                          Return("pair", TRUE, None, "done", "none"))
        /\ UNCHANGED <<fs, preferred_encoding, faults, gui>>

\* another program replaces or removes a file of the open project
ExternalChange ==
    /\ current_project # None
    /\ LET d == current_project[1].directory
       IN  \/ \E c \in ExternalBundlesContents :
                fs' = [fs EXCEPT ![d].bundles = c]
           \/ \E c \in ExternalMetadataContents :
                fs' = [fs EXCEPT ![d].project_metadata = c]
    /\ ret' = Call("external", None, None, Some(current_project[1].directory), Return("pair", TRUE, None, "done", "none"))
    /\ UNCHANGED <<current_project, preferred_encoding, faults, gui>>

Next ==
    \/ CreateProject
    \/ LoadProject

Spec == Init /\ [][Next]_vars

\* one Project, just created, and the operations of class Project on it
InitProject ==
    /\ faults = 0
    /\ preferred_encoding \in Encodings
    /\ \E title \in {Some(TitleMyTestProject), Some(TitleNoSlug)} :
        LET o == create_project(title, None, BaseOnly, None, "none")
        IN  /\ fs = o.fs
            /\ current_project = o.current_project
            /\ ret = Call("create_project", title, None, None, o.ret)
    /\ current_bundle_index = 0
    /\ image_files = {}
    /\ loading = NoLoading
    /\ selector = NoSelector
    /\ controller = NoCamera
    /\ user_manager = NoUserManager

NextProject ==
    \/ LoadBundles
    \/ SaveBundles
    \/ LoadProjectMetadata
    \/ SaveProjectMetadata
    \/ EnsureSubfolders
    \/ InsertBundle
    \/ ExternalChange

SpecProject == InitProject /\ [][NextProject]_vars

\* the user or another program removes a reserved subfolder of the open
\* project
RemoveSubfolder ==
    /\ current_project # None
    /\ LET d == current_project[1].directory
       IN  \/ fs' = [fs EXCEPT ![d].cache_subfolder = FALSE]
           \/ fs' = [fs EXCEPT ![d].capture_subfolder = FALSE]
    /\ ret' = Call("external", None, None, Some(current_project[1].directory),
                   Return("pair", TRUE, None, "done", "none"))
    /\ UNCHANGED <<current_project, preferred_encoding, faults, gui>>

NextSubfolders ==
    \/ EnsureSubfolders
    \/ RemoveSubfolder
    \/ ExternalChange

\* one Project, just created, its subfolders and files changing under it
SpecSubfolders == InitProject /\ [][NextSubfolders]_vars

----------------------------------------------------------------------------
(* The dialog: the handlers of DigitizationDialog, one action each, and    *)
(* the steps of run_with_loading_dialog's two threads.  While the loading  *)
(* dialog is open it holds the grab, so no other handler starts.           *)

Idle == loading.main = "idle"

\* the bare boolean a handler returned
Bool(value, step, fault) == Return("bool", value, None, step, fault)

CreateProjectAndUpdateDialog ==
    /\ Idle
    /\ \E title \in DialogTitles,
          fault \in {"none", "project_metadata_open"} :
        /\ fault = "none" \/ faults < MaxFaults
        /\ \E o \in {create_project(title, None, fs, current_project, fault)} :
            /\ Cardinality(DOMAIN o.fs) <= MaxDirs
            /\ fs' = o.fs
            /\ current_project' = o.current_project
            /\ current_bundle_index' = IF o.ret.ok THEN 0 - 1 ELSE current_bundle_index
            /\ ret' = Call("create_project_and_update_dialog", title, None, None, o.ret)
            /\ Inject(o.ret.fault)
            /\ UNCHANGED <<preferred_encoding, devices, image_files, loading>>

LoadProjectAndUpdateDialog ==
    /\ Idle
    /\ \E directory \in {d \in DOMAIN fs : is_copista_project(d, fs)},
          fault \in {"none", "project_metadata_read"} :
        /\ fault = "none" \/ faults < MaxFaults
        /\ \E o \in {load_project(directory, fs, current_project, fault,
                                  preferred_encoding)} :
            /\ o.current_project # None => WithinRepertoire(o.current_project[1])
            /\ fs' = o.fs
            /\ current_project' = o.current_project
            /\ current_bundle_index' = IF o.ret.ok THEN 0 ELSE current_bundle_index
            /\ ret' = Call("load_project_and_update_dialog", None, None,
                           Some(directory), o.ret)
            /\ Inject(o.ret.fault)
            /\ UNCHANGED <<preferred_encoding, devices, image_files, loading>>

\* add_bundle_from_images run by `thread`, with its effects
AddBundle(image_paths, fault, thread) ==
    \E self \in {current_project[1]} :
    \E r \in {add_bundle_from_images(image_paths, self, current_bundle_index,
                                     fs[self.directory], image_files, fault)} :
        /\ current_project' = Some(r.project)
        /\ current_bundle_index' = r.index
        /\ fs' = [fs EXCEPT ![self.directory] = r.dir]
        /\ Cardinality(r.images \ ExampleImages) <= MaxImages
        /\ image_files' = r.images
        /\ ret' = [thread |-> thread, paths |-> Len(image_paths)]
                  @@ Call("add_bundle_from_images", None, None,
                          Some(self.directory), Bool(r.value, r.step, r.fault))
        /\ Inject(r.fault)
        /\ UNCHANGED <<preferred_encoding, devices>>

AddBundleFromImages ==
    /\ Idle
    /\ current_project # None
    /\ Len(current_project[1].bundles.list) < MaxBundles
    /\ \E image_paths \in ImagePathLists, fault \in AddFaults :
        /\ fault = "none" \/ faults < MaxFaults
        /\ AddBundle(image_paths, fault, "main")
        /\ UNCHANGED loading

PreviousBundle ==
    /\ Idle
    /\ current_project # None
    /\ LET bundles == current_project[1].bundles.list
           move == bundles # <<>> /\ current_bundle_index > 0
       IN  /\ current_bundle_index' =
                 IF move THEN current_bundle_index - 1 ELSE current_bundle_index
           /\ ret' = Call("previous_bundle", None, None,
                          Some(current_project[1].directory),
                          Return(IF move /\ IndexError(bundles, current_bundle_index - 1)
                                 THEN "raise" ELSE "bool",
                                 move, None, "done", "none"))
    /\ UNCHANGED <<fs, current_project, preferred_encoding, devices, faults, image_files, loading>>

NextBundle ==
    /\ Idle
    /\ current_project # None
    /\ LET bundles == current_project[1].bundles.list
           move == bundles # <<>> /\ current_bundle_index < Len(bundles) - 1
       IN  /\ current_bundle_index' =
                 IF move THEN current_bundle_index + 1 ELSE current_bundle_index
           /\ ret' = Call("next_bundle", None, None,
                          Some(current_project[1].directory),
                          Return(IF move /\ IndexError(bundles, current_bundle_index + 1)
                                 THEN "raise" ELSE "bool",
                                 move, None, "done", "none"))
    /\ UNCHANGED <<fs, current_project, preferred_encoding, devices, faults, image_files, loading>>

\* add_bundle_from_dummy up to wait_window
AddBundleFromDummy ==
    /\ Idle
    /\ current_project # None
    /\ Len(current_project[1].bundles.list) < MaxBundles
    /\ loading' = start_loading
    /\ ret' = Call("add_bundle_from_dummy", None, None,
                   Some(current_project[1].directory), Bool(TRUE, "wait_window", "none"))
    /\ UNCHANGED <<fs, current_project, preferred_encoding, devices, faults,
                   current_bundle_index, image_files>>

\* the worker thread runs operation(): get_dummy_capture raises, fails, or
\* writes left.jpg and right.jpg, which add_bundle_from_images then takes
WorkerOperation ==
    /\ loading.worker = "operation"
    /\ \/ /\ loading' = worker_raised(loading)
          /\ ret' = Call("get_dummy_capture", None, None,
                         Some(current_project[1].directory),
                         Return("raise", FALSE, None, "done", "none"))
          /\ UNCHANGED <<fs, current_project, preferred_encoding, devices, faults,
                         current_bundle_index, image_files>>
       \/ /\ loading' = worker_returned(loading, FALSE)
          /\ ret' = Call("get_dummy_capture", None, None,
                         Some(current_project[1].directory),
                         Bool(FALSE, "done", "none"))
          /\ UNCHANGED <<fs, current_project, preferred_encoding, devices, faults,
                         current_bundle_index, image_files>>
       \/ \E fault \in AddFaults :
            /\ fault = "none" \/ faults < MaxFaults
            /\ AddBundle(<<ImagePath(LeftJpg, TRUE), ImagePath(RightJpg, TRUE)>>,
                         fault, "worker")
            /\ loading' = worker_returned(loading, ret'.ok)

WorkerFinally ==
    /\ loading.worker = "finally"
    /\ loading' = worker_finally(loading)
    /\ UNCHANGED <<fs, current_project, ret, preferred_encoding, devices, faults,
                   current_bundle_index, image_files>>

\* the event loop inside wait_window runs the posted callback
MainCallback ==
    /\ loading.main = "wait_window"
    /\ loading.after > 0
    /\ loading' = loading_dialog_close(loading)
    /\ UNCHANGED <<fs, current_project, ret, preferred_encoding, devices, faults,
                   current_bundle_index, image_files>>

\* wait_window returns once the window is destroyed
MainReturn ==
    /\ loading.main = "wait_window"
    /\ loading.dialog = "destroyed"
    /\ loading' = NoLoading
    /\ LET r == run_with_loading_dialog_return(loading.result, loading.error)
       IN  ret' = [value |-> r.value]
                  @@ Call("run_with_loading_dialog", None, None,
                          Some(current_project[1].directory),
                          Return(r.shape, r.shape = "value", None, "done", "none"))
    /\ UNCHANGED <<fs, current_project, preferred_encoding, devices, faults,
                   current_bundle_index, image_files>>

\* the dialog opens on the base folder, the example project in it
InitDialog ==
    /\ faults = 0
    /\ fs = BaseWithExample
    /\ current_project = None
    /\ ret = Call("init", None, None, None, Return("pair", TRUE, None, "done", "none"))
    /\ preferred_encoding \in Encodings
    /\ current_bundle_index = 0
    /\ image_files = ImageFiles(fs)
    /\ loading = NoLoading
    /\ selector = NoSelector
    /\ controller = NoCamera
    /\ user_manager = NoUserManager

NextDialog ==
    \/ CreateProjectAndUpdateDialog
    \/ LoadProjectAndUpdateDialog
    \/ AddBundleFromImages
    \/ PreviousBundle
    \/ NextBundle
    \/ AddBundleFromDummy
    \/ WorkerOperation
    \/ WorkerFinally
    \/ MainCallback
    \/ MainReturn

SpecDialog == InitDialog /\ [][NextDialog]_vars

\* the scheduler runs a thread that can take a step, and Tk's event loop
\* runs a posted callback
SpecLoading ==
    /\ SpecDialog
    /\ WF_vars(WorkerOperation)
    /\ WF_vars(WorkerFinally)
    /\ WF_vars(MainCallback)
    /\ WF_vars(MainReturn)

----------------------------------------------------------------------------
(* The project selector: one action for each handler of ProjectSelector *)

\* ask_directory_no_hidden up to wait_window
AskDirectory ==
    /\ selector.dialog \in {"none", "returned"}
    /\ \E fault \in {"none", "listdir"} :
        /\ fault = "none" \/ faults < MaxFaults
        /\ selector' = load_directory([NoSelector EXCEPT !.dialog = "open"],
                                       <<>>, fs, fault)
        /\ Inject(fault)
    /\ ret' = Call("ask_directory_no_hidden", None, None, None,
                   Return("value", TRUE, None, "wait_window", "none"))
    /\ UNCHANGED <<fs, current_project, preferred_encoding,
                   current_bundle_index, image_files, loading, controller,
                   user_manager>>

OnDoubleClick ==
    /\ selector.dialog = "open"
    /\ \E selection \in {None} \cup {Some(i) : i \in DOMAIN selector.listbox},
          fault \in {"none", "listdir"} :
        /\ fault = "none" \/ faults < MaxFaults
        /\ selector' = on_double_click(selector, selection, fs, fault)
        /\ Inject(IF selector'.listbox = <<ErrorItem("Sin permisos para leer este directorio")>> /\ fault # "none"
                  THEN fault ELSE "none")
    /\ UNCHANGED <<fs, current_project, ret, preferred_encoding,
                   current_bundle_index, image_files, loading, controller,
                   user_manager>>

SelectSelection ==
    /\ selector.dialog = "open"
    /\ \E selection \in {None} \cup {Some(i) : i \in DOMAIN selector.listbox} :
        selector' = select_selection(selector, selection)
    /\ UNCHANGED <<fs, current_project, ret, preferred_encoding, faults,
                   current_bundle_index, image_files, loading, controller,
                   user_manager>>

GoUp ==
    /\ selector.dialog = "open"
    /\ selector.current_path # <<>>
    /\ selector' = go_up(selector, fs, "none")
    /\ UNCHANGED <<fs, current_project, ret, preferred_encoding, faults,
                   current_bundle_index, image_files, loading, controller,
                   user_manager>>

GoBaseProjects ==
    /\ selector.dialog = "open"
    /\ selector' = load_directory(selector, <<>>, fs, "none")
    /\ UNCHANGED <<fs, current_project, ret, preferred_encoding, faults,
                   current_bundle_index, image_files, loading, controller,
                   user_manager>>

Cancel ==
    /\ selector.dialog = "open"
    /\ selector' = cancel(selector)
    /\ UNCHANGED <<fs, current_project, ret, preferred_encoding, faults,
                   current_bundle_index, image_files, loading, controller,
                   user_manager>>

\* the window manager closes the dialog
CloseWindow ==
    /\ selector.dialog = "open"
    /\ selector' = [selector EXCEPT !.dialog = "destroyed"]
    /\ UNCHANGED <<fs, current_project, ret, preferred_encoding, faults,
                   current_bundle_index, image_files, loading, controller,
                   user_manager>>

\* ProjectSelector.show after wait_window
Show ==
    /\ selector.dialog = "destroyed"
    /\ selector' = [selector EXCEPT !.dialog = "returned"]
    /\ ret' = [value |-> selector.selected_directory]
              @@ Call("ask_directory_no_hidden", None, None, None,
                      Return("value", TRUE, None, "done", "none"))
    /\ UNCHANGED <<fs, current_project, preferred_encoding, faults,
                   current_bundle_index, image_files, loading, controller,
                   user_manager>>

\* another program writes, replaces or removes the bundles.json of a
\* folder, or removes the folder
SelectorExternalChange ==
    /\ \E d \in DOMAIN fs \ {<<base_projects_folder, <<>>>>,
                             <<base_projects_folder, <<".", "hidden">>>>} :
        \/ \E c \in {Absent, Malformed, Directory} :
            /\ c # fs[d].bundles
            /\ fs' = [fs EXCEPT ![d].bundles = c]
        \/ fs' = [x \in DOMAIN fs \ {d} |-> fs[x]]
    /\ UNCHANGED <<current_project, ret, preferred_encoding, faults, gui>>

InitSelector ==
    /\ faults = 0
    /\ fs = SelectorFs
    /\ current_project = None
    /\ ret = Call("init", None, None, None, Return("pair", TRUE, None, "done", "none"))
    /\ preferred_encoding = "utf-8"
    /\ current_bundle_index = 0
    /\ image_files = {}
    /\ loading = NoLoading
    /\ selector = NoSelector
    /\ controller = NoCamera
    /\ user_manager = NoUserManager

SpecSelector ==
    InitSelector /\ [][\/ AskDirectory
                       \/ OnDoubleClick
                       \/ SelectSelection
                       \/ GoUp
                       \/ GoBaseProjects
                       \/ Cancel
                       \/ CloseWindow
                       \/ Show
                       \/ SelectorExternalChange]_vars

----------------------------------------------------------------------------
(* file_utils.copy_image_to_directory on its own: one call after another   *)
(* into the example project's directory                                    *)

CopyImageToDirectory ==
    \E name \in {LeftJpg, RightJpg}, exists \in BOOLEAN,
       fault \in {"none", CopyFault(1), PartialCopyFault(1)} :
        /\ fault = "none" \/ (exists /\ faults < MaxFaults)
        /\ \E c \in {copy_image_to_directory(ImagePath(name, exists), ExampleDirectory,
                                             image_files, 1, fault)} :
            /\ Cardinality(c.images) <= MaxImages + 1
            /\ image_files' = c.images
            /\ ret' = [source |-> ImagePath(name, exists), before |-> image_files,
                       filename |-> c.filename]
                      @@ Call("copy_image_to_directory", None, None,
                              Some(ExampleDirectory),
                              Return("value", c.filename # None, None, "done", c.fault))
            /\ Inject(c.fault)
        /\ UNCHANGED <<fs, current_project, preferred_encoding,
                       current_bundle_index, loading, devices>>

InitCopy ==
    /\ faults = 0
    /\ fs = BaseWithExample
    /\ current_project = None
    /\ ret = Call("init", None, None, None, Return("pair", TRUE, None, "done", "none"))
    /\ preferred_encoding = "utf-8"
    /\ current_bundle_index = 0
    /\ image_files \in {{<<ExampleDirectory, n>> : n \in S} : S \in SUBSET {LeftJpg, RightJpg, numbered_filename(LeftJpg, 1),
                           numbered_filename(LeftJpg, 2)}}
    /\ loading = NoLoading
    /\ selector = NoSelector
    /\ controller = NoCamera
    /\ user_manager = NoUserManager

SpecCopy == InitCopy /\ [][CopyImageToDirectory]_vars

----------------------------------------------------------------------------
(* The camera controller: one action for each public method *)

Connect ==
    /\ \E outcome \in {"no_port", "init_error", "ok"} :
        /\ controller' = connect(controller, outcome)
        /\ ret' = Call("connect", None, None, None, Bool(outcome = "ok", "done", "none"))
    /\ UNCHANGED <<fs, current_project, preferred_encoding, faults,
                   current_bundle_index, image_files, loading, selector,
                   user_manager>>

Disconnect ==
    /\ \E exit_raises \in BOOLEAN :
        /\ controller' = disconnect(controller, exit_raises)
        /\ ret' = [sdk |-> controller.camera # "None"]
                  @@ Call("disconnect", None, None, None,
                          Return("none", TRUE, None,
                                 IF exit_raises /\ controller.camera # "None"
                                 THEN "except" ELSE "done", "none"))
    /\ UNCHANGED <<fs, current_project, preferred_encoding, faults,
                   current_bundle_index, image_files, loading, selector,
                   user_manager>>

CaptureAndDownload ==
    /\ \E sdk_error \in BOOLEAN, delete_from_camera \in BOOLEAN :
        \E o \in {camera_operation(controller, TRUE, sdk_error)} :
            /\ o.self.downloads <= MaxDownloads
            /\ controller' = o.self
            /\ ret' = [sdk |-> o.sdk,
                       value |-> IF o.failed THEN "None" ELSE "value",
                       delete_from_camera |-> delete_from_camera]
                      @@ Call("capture_and_download", None, None, None,
                              Bool(~o.failed, "done", "none"))
    /\ UNCHANGED <<fs, current_project, preferred_encoding, faults,
                   current_bundle_index, image_files, loading, selector,
                   user_manager>>

DownloadFile ==
    /\ \E sdk_error \in BOOLEAN, delete_from_camera \in BOOLEAN :
        \E o \in {camera_operation(controller, TRUE, sdk_error)} :
            /\ o.self.downloads <= MaxDownloads
            /\ controller' = o.self
            /\ ret' = [sdk |-> o.sdk,
                       value |-> IF o.failed THEN "None" ELSE "value",
                       delete_from_camera |-> delete_from_camera]
                      @@ Call("download_file", None, None, None,
                              Bool(~o.failed, "done", "none"))
    /\ UNCHANGED <<fs, current_project, preferred_encoding, faults,
                   current_bundle_index, image_files, loading, selector,
                   user_manager>>

ListFilesOnCamera ==
    /\ \E sdk_error \in BOOLEAN :
        \E o \in {camera_operation(controller, FALSE, sdk_error)} :
            /\ o.self.downloads <= MaxDownloads
            /\ controller' = o.self
            /\ ret' = [sdk |-> o.sdk,
                       value |-> IF o.failed THEN "[]" ELSE "value"]
                      @@ Call("list_files_on_camera", None, None, None,
                              Bool(~o.failed, "done", "none"))
    /\ UNCHANGED <<fs, current_project, preferred_encoding, faults,
                   current_bundle_index, image_files, loading, selector,
                   user_manager>>

GetCameraConfig ==
    /\ \E sdk_error \in BOOLEAN :
        \E o \in {camera_operation(controller, FALSE, sdk_error)} :
            /\ o.self.downloads <= MaxDownloads
            /\ controller' = o.self
            /\ ret' = [sdk |-> o.sdk,
                       value |-> IF o.failed THEN "None" ELSE "value"]
                      @@ Call("get_camera_config", None, None, None,
                              Bool(~o.failed, "done", "none"))
    /\ UNCHANGED <<fs, current_project, preferred_encoding, faults,
                   current_bundle_index, image_files, loading, selector,
                   user_manager>>

InitCamera ==
    /\ faults = 0
    /\ fs = BaseOnly
    /\ current_project = None
    /\ ret = Call("init", None, None, None, Return("pair", TRUE, None, "done", "none"))
    /\ preferred_encoding = "utf-8"
    /\ current_bundle_index = 0
    /\ image_files = {}
    /\ loading = NoLoading
    /\ selector = NoSelector
    /\ controller = NoCamera
    /\ user_manager = NoUserManager

SpecCamera ==
    InitCamera /\ [][\/ Connect
                     \/ Disconnect
                     \/ CaptureAndDownload
                     \/ DownloadFile
                     \/ ListFilesOnCamera
                     \/ GetCameraConfig]_vars

----------------------------------------------------------------------------
(* The user manager: one action for each handler of UserManager *)

\* authenticate_user up to wait_window: UserManager.__init__ with
\* load_users_data
AuthenticateUser ==
    /\ user_manager.root \in {"none", "returned"}
    /\ user_manager' = [NoUserManager EXCEPT !.root = "open",
                                             !.users_data = user_manager.file,
                                             !.file = user_manager.file]
    /\ ret' = Call("authenticate_user", None, None, None,
                   Return("value", TRUE, None, "wait_window", "none"))
    /\ UNCHANGED faults
    /\ UNCHANGED <<fs, current_project, preferred_encoding,
                   current_bundle_index, image_files, loading, selector,
                   controller>>

LoginAsSystemUser ==
    /\ user_manager.root = "open"
    /\ user_manager.current_view = "login"
    /\ \E fault \in {"none", "users_open"} :
        /\ fault = "none" \/ faults < MaxFaults
        /\ user_manager' = login_as_system_user(user_manager, fault)
        /\ ret' = Call("login_as_system_user", None, None, None,
                       Return("none", TRUE, None, "done", fault))
        /\ Inject(fault)
    /\ UNCHANGED <<fs, current_project, preferred_encoding,
                   current_bundle_index, image_files, loading, selector,
                   controller>>

LoginUser ==
    /\ user_manager.root = "open"
    /\ user_manager.current_view = "login"
    /\ \E username \in {"", "ana", "system_user"}, password \in {"", "p", "q"}, fault \in {"none", "users_open"} :
        /\ fault = "none" \/ faults < MaxFaults
        /\ user_manager' = login_user(user_manager, username, password, fault)
        /\ LET ok == user_manager'.current_view = "profile"
           IN  /\ ret' = [username |-> username, password |-> password]
                         @@ Call("login_user", None, None, None,
                                 Return("none", ok, None, "done",
                                        IF ok THEN fault ELSE "none"))
               /\ Inject(IF ok THEN fault ELSE "none")
    /\ UNCHANGED <<fs, current_project, preferred_encoding,
                   current_bundle_index, image_files, loading, selector,
                   controller>>

\* "Crear Cuenta" in the login view and "Cancelar" in the register view
ShowView ==
    /\ user_manager.root = "open"
    /\ user_manager.current_view \in {"login", "register"}
    /\ user_manager' = [user_manager EXCEPT !.current_view =
                            IF @ = "login" THEN "register" ELSE "login"]
    /\ UNCHANGED <<ret, faults>>
    /\ UNCHANGED <<fs, current_project, preferred_encoding,
                   current_bundle_index, image_files, loading, selector,
                   controller>>

RegisterUser ==
    /\ user_manager.root = "open"
    /\ user_manager.current_view = "register"
    /\ \E username \in {"", "ana", "system_user"}, password \in {"", "p", "q"},
          password_confirm \in {"", "p", "q"}, fault \in {"none", "users_open"} :
        /\ fault = "none" \/ faults < MaxFaults
        /\ user_manager' = register_user(user_manager, username, "Ana", password,
                                         password_confirm, fault)
        /\ LET created == user_manager'.users_data # user_manager.users_data
           IN  /\ ret' = [username |-> username, password |-> password,
                          saved |-> created /\ fault = "none"]
                         @@ Call("register_user", None, None, None,
                                 Return("none", created /\ fault = "none", None,
                                        "done", IF created THEN fault ELSE "none"))
               /\ Inject(IF created THEN fault ELSE "none")
    /\ UNCHANGED <<fs, current_project, preferred_encoding,
                   current_bundle_index, image_files, loading, selector,
                   controller>>

\* UserManager.save_profile_changes: current_user and its entry of
\* users_data are one dict
SaveProfileChanges ==
    /\ user_manager.root = "open"
    /\ user_manager.current_view = "profile"
    /\ \E new_fullname \in {"", "Ana B."}, fault \in {"none", "users_open"} :
        /\ fault = "none" \/ faults < MaxFaults
        /\ LET self == user_manager
               changed == self.current_user[1].type = "custom" /\ new_fullname # ""
               user == [self.current_user[1] EXCEPT !.display_name = new_fullname]
           IN  /\ user_manager' =
                     IF changed
                     THEN save_users_data(
                              [self EXCEPT !.current_user = Some(user),
                                           !.users_data[user.username] = user],
                              fault)
                     ELSE self
               /\ ret' = Call("save_profile_changes", None, None, None,
                              Return("none", changed /\ fault = "none", None,
                                     "done", IF changed THEN fault ELSE "none"))
               /\ Inject(IF changed THEN fault ELSE "none")
    /\ UNCHANGED <<fs, current_project, preferred_encoding,
                   current_bundle_index, image_files, loading, selector,
                   controller>>

Logout ==
    /\ user_manager.root = "open"
    /\ user_manager.current_view = "profile"
    /\ user_manager' = [user_manager EXCEPT !.current_user = None,
                                            !.current_view = "login"]
    /\ ret' = Call("logout", None, None, None,
                   Return("none", TRUE, None, "done", "none"))
    /\ UNCHANGED faults
    /\ UNCHANGED <<fs, current_project, preferred_encoding,
                   current_bundle_index, image_files, loading, selector,
                   controller>>

\* "Continuar" in the profile view, or the window manager closing the window
CloseManager ==
    /\ user_manager.root = "open"
    /\ user_manager' = [user_manager EXCEPT !.root = "destroyed"]
    /\ UNCHANGED <<ret, faults>>
    /\ UNCHANGED <<fs, current_project, preferred_encoding,
                   current_bundle_index, image_files, loading, selector,
                   controller>>

\* UserManager.show after wait_window
ShowUserManager ==
    /\ user_manager.root = "destroyed"
    /\ user_manager' = [user_manager EXCEPT !.root = "returned"]
    /\ ret' = [value |-> user_manager.current_user]
              @@ Call("authenticate_user", None, None, None,
                      Return("value", user_manager.current_user # None, None,
                             "done", "none"))
    /\ UNCHANGED faults
    /\ UNCHANGED <<fs, current_project, preferred_encoding,
                   current_bundle_index, image_files, loading, selector,
                   controller>>

InitUsers ==
    /\ faults = 0
    /\ fs = BaseOnly
    /\ current_project = None
    /\ ret = Call("init", None, None, None, Return("pair", TRUE, None, "done", "none"))
    /\ preferred_encoding = "utf-8"
    /\ current_bundle_index = 0
    /\ image_files = {}
    /\ loading = NoLoading
    /\ selector = NoSelector
    /\ controller = NoCamera
    /\ user_manager \in
         {NoUserManager,
          [NoUserManager EXCEPT !.file =
              ("ana" :> [username |-> "ana", type |-> "custom",
                         display_name |-> "Ana",
                         password_hash |-> Some(hash_password("p"))])]}

SpecUsers ==
    InitUsers /\ [][\/ AuthenticateUser
                    \/ LoginAsSystemUser
                    \/ LoginUser
                    \/ ShowView
                    \/ RegisterUser
                    \/ SaveProfileChanges
                    \/ Logout
                    \/ CloseManager
                    \/ ShowUserManager]_vars

----------------------------------------------------------------------------
(* Claims about class Project, checked under SpecProject *)

\* C1: a successful save_bundles() followed by load_bundles() on the same
\* Project leaves the in-memory bundle sequence equal to the one saved.
C1_SaveLoadRoundTrip ==
    [][(ret.op = "save_bundles" /\ ret.ok /\ ret'.op = "load_bundles")
        => current_project'[1].bundles = current_project[1].bundles]_vars

\* C2: load_bundles() with bundles.json absent fails with the "No existe
\* bundles.json" (NotFound) message and leaves the in-memory list as it was.
C2_AbsentIsNotFound ==
    [][(ret'.op = "load_bundles"
        /\ fs[current_project[1].directory].bundles.kind = "absent")
        => /\ ret'.shape = "pair" /\ ~ret'.ok
           /\ ret'.message =
                Some(Message("Error", "No existe {} en el proyecto",
                             <<"bundles", ".json">>))
           /\ current_project' = current_project]_vars

C2_Witness ==
    /\ ret.op = "load_bundles" /\ ~ret.ok
    /\ ret.message # None /\ ret.message[1].text = "No existe {} en el proyecto"
    /\ fs[current_project[1].directory].bundles.kind = "absent"
    /\ Len(current_project[1].bundles.list) = 2

\* C3: load_bundles() fails with the "Error al leer" (ParseError) message
\* exactly when bundles.json is read but is not JSON, so that outcome is
\* told apart from NotFound and from the generic error; and whenever
\* load_bundles() fails the in-memory bundle list is unchanged.
C3_InvalidJsonIsParseError ==
    [][ret'.op = "load_bundles"
        => LET file == fs[current_project[1].directory].bundles
               parse_error == Some(Message("Error", "Error al leer {filename}", <<>>))
           IN  /\ (file.kind = "malformed" /\ ret'.fault = "none")
                    <=> (~ret'.ok /\ ret'.message = parse_error)
               /\ ~ret'.ok => current_project' = current_project]_vars

C3_Witness ==
    /\ ret.op = "load_bundles" /\ ~ret.ok
    /\ ret.message # None /\ ret.message[1].text = "Error al leer {filename}"
    /\ fs[current_project[1].directory].bundles.kind = "malformed"
    /\ current_project[1].bundles.list # <<>>

\* C4: when the file is a JSON object whose key is absent or empty,
\* load_bundles() / load_project_metadata() succeed, return a Warning
\* message, and the in-memory value becomes the empty sequence.
C4_EmptyKeyWarns ==
    (/\ ret.op \in {"load_bundles", "load_project_metadata"}
     /\ ret.fault = "none"
     /\ LET dir == fs[current_project[1].directory]
            file == IF ret.op = "load_bundles" THEN dir.bundles
                    ELSE dir.project_metadata
        IN  /\ file.kind = "object"
            /\ file.key = None \/ Falsy(file.key[1]))
    => /\ ret.ok
       /\ ret.message # None
       /\ ret.message[1].category = "Advertencia"
       /\ LET value == IF ret.op = "load_bundles" THEN current_project[1].bundles
                       ELSE current_project[1].project_metadata
          IN  value.t = "list" /\ value.list = <<>>

----------------------------------------------------------------------------
(* Claims about ProjectManager, checked under Spec *)

\* C5: create_project(T, P) uses P/slug(T) when free, else the first free
\* of P/slug(T)_001, _002, ... ; two successive calls with the same T and P
\* give distinct directories, the second suffixed _001.
C5_LinearProbe ==
    [][(ret'.op = "create_project" /\ ret'.ok)
        => LET d == current_project'[1].directory
               T == ret'.title[1]
               P == IF ret'.parent = None THEN "../example_projects/"
                    ELSE ret'.parent[1]
               slug == IF T = <<"My", " ", "Test", " ", "Project">>
                       THEN <<"my", "-", "test", "-", "project">>
                       ELSE slugify(T)
               suffix == <<<<"_", "0", "0", "1">>, <<"_", "0", "0", "2">>,
                           <<"_", "0", "0", "3">>, <<"_", "0", "0", "4">>,
                           <<"_", "0", "0", "5">>>>
           IN  /\ d[1] = P
               /\ d \notin DOMAIN fs
               /\ \/ d[2] = slug
                  \/ \E k \in 1..5 :
                        /\ d[2] = slug \o suffix[k]
                        /\ <<P, slug>> \in DOMAIN fs
                        /\ \A j \in 1..(k - 1) : <<P, slug \o suffix[j]>> \in DOMAIN fs
               /\ (ret.op = "create_project" /\ ret.ok
                   /\ ret.title = ret'.title /\ ret.parent = ret'.parent)
                  => /\ d # current_project[1].directory
                     /\ current_project[1].directory[2] = slug
                          => d[2] = slug \o <<"_", "0", "0", "1">>]_vars

C5_Witness ==
    /\ ret.op = "create_project" /\ ret.ok
    /\ current_project[1].directory[2] =
          <<"my", "-", "test", "-", "project", "_", "0", "0", "1">>

\* C6: after a successful create_project(T) the directory and both
\* subfolders exist, bundles.json holds an empty list, project_metadata.json
\* holds title T and description null, and current_project is the new
\* project with an empty in-memory bundle list.
C6_CreatedProject ==
    (ret.op = "create_project" /\ ret.ok)
    => /\ current_project # None
       /\ LET self == current_project[1]
              d == self.directory
          IN  /\ d \in DOMAIN fs
              /\ fs[d].cache_subfolder /\ fs[d].capture_subfolder
              /\ fs[d].bundles.kind = "object"
              /\ fs[d].bundles.key # None
              /\ fs[d].bundles.key[1].t = "list"
              /\ fs[d].bundles.key[1].list = <<>>
              /\ fs[d].project_metadata.kind = "object"
              /\ fs[d].project_metadata.key # None
              /\ fs[d].project_metadata.key[1].t = "dict"
              /\ Len(fs[d].project_metadata.key[1].title) = 1
              /\ utf8_decode(fs[d].project_metadata.key[1].title[1]) = ret.title[1]
              /\ fs[d].project_metadata.key[1].description = None
              /\ self.bundles.t = "list" /\ self.bundles.list = <<>>
              /\ self.project_metadata.title = ret.title

C6_Witness ==
    /\ ret.op = "create_project" /\ ret.ok
    /\ ret.title = Some(<<"U+00A1", "!">>)
    /\ current_project # None
    /\ fs[current_project[1].directory].project_metadata.kind = "object"

\* C7: create_project with an empty or missing title returns a failure as
\* a (flag, (category, detail)) pair, creates nothing, and leaves
\* current_project unchanged.
C7_EmptyTitleIsValidationError ==
    [][(ret'.op = "create_project" /\ ret'.title \in {None, Some(<<>>)})
        => /\ ret'.shape = "pair" /\ ~ret'.ok
           /\ ret'.message # None
           /\ fs' = fs
           /\ current_project' = current_project]_vars

\* C8: create_project runs makedirs, ensure_subfolders, save_bundles,
\* save_project_metadata in that order; a failing step ends the call with
\* (False, that step's error pair), no later step is done, nothing made by
\* the earlier steps is removed, and current_project is unchanged.
C8_CreateStopsAtFailingStep ==
    [][(ret'.op = "create_project" /\ ret'.shape = "pair" /\ ~ret'.ok)
        => LET new == DOMAIN fs' \ DOMAIN fs
               base == <<"../example_projects/", <<>>>>
               plain == [cache_subfolder |-> FALSE, capture_subfolder |-> FALSE,
                         bundles |-> Absent, project_metadata |-> Absent]
               Partial(dir) ==
                   CASE ret'.step = "ensure_subfolders" ->
                          /\ ~dir.capture_subfolder
                          /\ dir.bundles = Absent /\ dir.project_metadata = Absent
                          /\ ret'.message[1].text = "Error al crear {}: {}"
                          /\ IF dir.cache_subfolder
                             THEN ".capture" \in {ret'.message[1].arg[i] :
                                                    i \in DOMAIN ret'.message[1].arg}
                             ELSE ".cache" \in {ret'.message[1].arg[i] :
                                                    i \in DOMAIN ret'.message[1].arg}
                     [] ret'.step = "save_bundles" ->
                          /\ dir.cache_subfolder /\ dir.capture_subfolder
                          /\ dir.bundles \in {Absent, Malformed}
                          /\ dir.project_metadata = Absent
                          /\ ret'.message[1].text = "Error actualizando {}: {}"
                          /\ "bundles" \in {ret'.message[1].arg[i] :
                                              i \in DOMAIN ret'.message[1].arg}
                     [] ret'.step = "save_project_metadata" ->
                          /\ dir.cache_subfolder /\ dir.capture_subfolder
                          /\ dir.bundles = JsonObject(Some(JList(<<>>)))
                          /\ dir.project_metadata \in {Absent, Malformed}
                          /\ ret'.message[1].text = "Error actualizando {}: {}"
                          /\ "project_metadata" \in {ret'.message[1].arg[i] :
                                              i \in DOMAIN ret'.message[1].arg}
                     [] OTHER -> FALSE
           IN  /\ ret'.message # None
               /\ ret'.message[1].category = "Error"
               /\ \A d \in DOMAIN fs : d \in DOMAIN fs' /\ fs'[d] = fs[d]
               /\ current_project' = current_project
               /\ IF ret'.step = "makedirs"
                  THEN /\ new \subseteq {base}
                       /\ \A d \in new : fs'[d] = plain
                       /\ ret'.message[1].text = "Error al crear {}: {}"
                  ELSE \E d \in new :
                          /\ Partial(fs'[d])
                          /\ \A e \in new \ {d} : e = base /\ fs'[e] = plain]_vars

C8_Witness ==
    /\ ret.op = "create_project" /\ ~ret.ok
    /\ ret.step = "save_project_metadata"
    /\ \E d \in DOMAIN fs :
          /\ fs[d].bundles.kind = "object"
          /\ fs[d].project_metadata.kind = "malformed"

\* C9: load_project runs load_bundles, ensure_subfolders,
\* load_project_metadata in that order and, at the first step that fails,
\* returns failure with the error pair that step produced.
C9_LoadReturnsFailingStepError ==
    (ret.op = "load_project" /\ ret.shape = "pair" /\ ~ret.ok)
    => /\ ret.step \in {"load_bundles", "ensure_subfolders", "load_project_metadata"}
       /\ ret.message # None
       /\ ret.message[1].category = "Error"
       /\ ret.step = "ensure_subfolders"
            => ret.message[1].text = "Error al crear {}: {}"
       /\ ret.step \in {"load_bundles", "load_project_metadata"}
            => ret.message[1].text \in
                 {"No existe {} en el proyecto", "Error al leer {filename}",
                  "Error inesperado: {}"}

\* C10: a load_project call that does not succeed leaves current_project
\* (the Project, its bundle list and its metadata) as it was.
C10_FailedLoadKeepsCurrent ==
    [][(ret'.op = "load_project" /\ ~(ret'.shape = "pair" /\ ret'.ok))
        => current_project' = current_project]_vars

C10_Witness ==
    /\ ret.op = "load_project" /\ ~ret.ok /\ ret.shape = "pair"
    /\ current_project # None
    /\ current_project[1].bundles.list # <<>>
    /\ ret.step = "load_project_metadata"

\* C11: load_project(directory) on a directory that does not exist returns
\* (False, (category, detail)); it does not raise.
C11_MissingDirectoryIsError ==
    [][(ret'.op = "load_project" /\ ret'.directory[1] \notin DOMAIN fs)
        => /\ ret'.shape = "pair" /\ ~ret'.ok
           /\ ret'.message # None
           /\ ret'.message[1].category = "Error"]_vars

\* C12: current_project is None or one Project; it changes only in a
\* create_project / load_project call that returns success, and then it is
\* the Project just created (a directory that did not exist) or loaded (the
\* directory asked for); the call writes nothing to bundles.json or
\* project_metadata.json of the project that was open before, and a
\* create_project call that fails leaves current_project as it was.
C12_SingleCurrentProject ==
    [][/\ current_project' # current_project
          => /\ ret'.op \in {"create_project", "load_project"}
             /\ ret'.shape = "pair" /\ ret'.ok
             /\ current_project' # None
             /\ Len(current_project') = 1
             /\ IF ret'.op = "load_project"
                THEN current_project'[1].directory = ret'.directory[1]
                ELSE current_project'[1].directory \notin DOMAIN fs
       /\ (ret'.op \in {"create_project", "load_project"} /\ current_project # None)
          => LET old == current_project[1].directory
             IN  /\ fs'[old].bundles = fs[old].bundles
                 /\ fs'[old].project_metadata = fs[old].project_metadata
       /\ (ret'.op = "create_project" /\ ~(ret'.shape = "pair" /\ ret'.ok))
          => current_project' = current_project]_vars

\* a project was created, and then the example project was opened in its place
C12_Witness ==
    /\ ret.op = "load_project" /\ ret.ok
    /\ current_project # None
    /\ current_project[1].directory = ExampleDirectory
    /\ \E d \in DOMAIN fs :
          /\ d # ExampleDirectory
          /\ fs[d].project_metadata.kind = "object"

----------------------------------------------------------------------------
(* Claims about the bundle list, checked under SpecProject *)

----------------------------------------------------------------------------
(* Claims about the dialog, checked under SpecDialog *)

\* C14: whenever no handler is running and no file-system error has
\* happened so far, the bundle list stored (as UTF-8 JSON) in the current
\* project's bundles.json equals the project's in-memory bundle list.
C14_BundlesPersisted ==
    (Idle /\ current_project # None /\ faults = 0)
    => LET file == fs[current_project[1].directory].bundles
       IN  /\ file.kind = "object" /\ file.key # None
           /\ json_load(file.key[1], "utf-8") = current_project[1].bundles

\* C15: when save_bundles fails inside add_bundle_from_images, the call
\* leaves the in-memory bundle list and current_bundle_index as they were
\* before it.
C15_FailedSaveRollsBack ==
    [][(ret'.op = "add_bundle_from_images"
        /\ ret'.fault \in {"bundles_open", "bundles_write"})
        => /\ current_project'[1].bundles = current_project[1].bundles
           /\ current_bundle_index' = current_bundle_index]_vars

\* C16: a bundle that add_bundle_from_images puts in the list has type
\* "generic" and 1 to 3 image names, each the name of a file then present in
\* the project directory; a call with no path or more than 3 paths returns
\* False and changes neither the files, the bundle list, bundles.json nor
\* current_bundle_index.
C16_BundleShape ==
    [][ret'.op = "add_bundle_from_images"
        => LET old == current_project[1].bundles.list
               new == current_project'[1].bundles.list
               d == current_project[1].directory
           IN  /\ \A i \in DOMAIN new :
                     new[i] \notin {old[j] : j \in DOMAIN old}
                     => /\ new[i].type = <<"generic">>
                        /\ Len(new[i].images) \in 1..3
                        /\ \A k \in DOMAIN new[i].images :
                              <<d, new[i].images[k]>> \in image_files'
               /\ (ret'.paths = 0 \/ ret'.paths > 3)
                     => /\ ~ret'.ok
                        /\ image_files' = image_files
                        /\ current_project' = current_project
                        /\ fs' = fs
                        /\ current_bundle_index' = current_bundle_index]_vars

\* a call with three paths, two of them the same file, added a bundle of
\* three distinct names
C16_Witness ==
    /\ ret.op = "add_bundle_from_images" /\ ret.ok /\ ret.paths = 3
    /\ current_project[1].bundles.list[current_bundle_index + 1].images
          = <<<<"left", ".jpg">>, <<"left", "_", "0", "0", "1", ".jpg">>,
              <<"right", ".jpg">>>>

\* C17: the step the worker thread takes while it runs the operation
\* leaves the current project's bundle list, its files on disk and the
\* bundle index as they are; only the result value goes back to the main
\* thread.
C17_WorkerLeavesProject ==
    [][(loading.worker = "operation" /\ loading'.worker # "operation")
        => /\ current_project' = current_project
           /\ fs' = fs
           /\ image_files' = image_files
           /\ current_bundle_index' = current_bundle_index]_vars

----------------------------------------------------------------------------
(* Claims about run_with_loading_dialog, checked under SpecLoading *)

\* C18: run_with_loading_dialog returns only after the worker has finished
\* and the one callback it posted has run and destroyed the window; the
\* callback is posted exactly once, whether the operation returned or
\* raised, so a wait whose operation has ended always ends; and when the
\* operation returned, the value returned is the one the worker stored.
C18_Join ==
    /\ [][(loading.main = "wait_window" /\ loading'.main = "idle")
           => /\ loading.worker = "finished"
              /\ loading.dialog = "destroyed"
              /\ loading.posted = 1 /\ loading.after = 0
              /\ loading.outcome = "returned"
                    => /\ ret'.shape = "value"
                       /\ ret'.value # None
                       /\ ret'.value = loading.result]_vars
    /\ [](/\ loading.posted <= 1
          /\ loading.worker = "finished" => loading.posted = 1
          /\ loading.worker \in {"operation", "finally"} => loading.posted = 0)
    /\ ((loading.main = "wait_window" /\ loading.worker \in {"finally", "finished"})
          ~> loading.main = "idle")

\* the dummy capture raised, and the call still came back
C18_Witness ==
    /\ ret.op = "run_with_loading_dialog"
    /\ ret.shape = "raise"
    /\ loading.main = "idle"

\* C19: run_with_loading_dialog returns the operation's result, or None
\* when the operation raised; the exception does not reach the caller.
C19_ErrorGivesNone ==
    [][ret'.op = "run_with_loading_dialog"
        => /\ ret'.shape = "value"
           /\ loading.outcome = "raised" => ret'.value = None
           /\ loading.outcome = "returned" => ret'.value = loading.result]_vars

----------------------------------------------------------------------------
(* A claim about Project.ensure_subfolders, checked under SpecSubfolders *)

\* C20: an ensure_subfolders() call that meets no file-system error
\* succeeds and leaves both subfolders in place; called right after a
\* successful call it succeeds again and changes nothing on disk; and no
\* call, failed or not, removes a subfolder or touches anything else in the
\* project directory or outside it.
C20_EnsureSubfoldersIdempotent ==
    [][ret'.op = "ensure_subfolders"
        => LET d == current_project[1].directory
           IN  /\ ret'.fault = "none"
                    => /\ ret'.ok
                       /\ fs'[d].cache_subfolder /\ fs'[d].capture_subfolder
               /\ (ret'.repeated /\ ret'.fault = "none") => fs' = fs
               /\ fs[d].cache_subfolder => fs'[d].cache_subfolder
               /\ fs[d].capture_subfolder => fs'[d].capture_subfolder
               /\ fs'[d].bundles = fs[d].bundles
               /\ fs'[d].project_metadata = fs[d].project_metadata
               /\ DOMAIN fs' = DOMAIN fs
               /\ \A e \in DOMAIN fs \ {d} : fs'[e] = fs[e]
               /\ current_project' = current_project]_vars

\* the second of two calls in a row succeeded
C20_Witness ==
    /\ ret.op = "ensure_subfolders" /\ ret.repeated /\ ret.ok
    /\ fs[current_project[1].directory].cache_subfolder
    /\ fs[current_project[1].directory].capture_subfolder

----------------------------------------------------------------------------
(* A claim about the project selector, checked under SpecSelector *)

\* a regular file named bundles.json lies directly inside the directory
BundlesFileExists(d) ==
    /\ d \in DOMAIN fs
    /\ fs[d].bundles.kind \in {"malformed", "array", "object"}

\* C21: is_copista_project(directory) holds exactly when a file
\* bundles.json lies directly inside the directory, and the selector gives
\* back either no selection or a directory the predicate held for when the
\* list on display was made, never one the list shows as a plain folder.
C21_SelectorReturnsListedProject ==
    /\ \A d \in DOMAIN fs \cup {SelectorKey(<<<<"plain">>>>), SelectorKey(<<<<"scans">>>>)} :
        is_copista_project(d, fs) <=> BundlesFileExists(d)
    /\ selector.selected_directory # None =>
        /\ selector.selected_directory[1] \in selector.listed.project
        /\ selector.selected_directory[1] \notin selector.listed.plain
    /\ (ret.op = "ask_directory_no_hidden" /\ ret.step = "done") =>
        \/ ret.value = None
        \/ ret.value = selector.selected_directory

\* the selector has given back a project that has lost its bundles.json
\* since the list was made
C21_Witness ==
    /\ ret.op = "ask_directory_no_hidden"
    /\ ret.step = "done"
    /\ selector.dialog = "returned"
    /\ ret.value = Some(<<<<"example">>>>)
    /\ ~is_copista_project(SelectorKey(ret.value[1]), fs)
    /\ <<<<"plain">>>> \in selector.listed.plain

----------------------------------------------------------------------------
(* A claim about copy_image_to_directory, checked under SpecCopy *)

\* name, name_001, name_002, ... written out: the stem, an underscore,
\* three digits, the extension
NameCandidates(name) ==
    <<name>> \o [n \in 1..(MaxImages + 1) |->
                    <<name[1], "_", "0", "0", <<"1", "2", "3", "4", "5", "6">>[n],
                      name[2]>>]

\* C22: copy_image_to_directory copies the source under its own file name
\* when that name is free in the destination and else under the first free
\* one of stem_001, stem_002, ...; no file the destination already holds is
\* written over or lost, a call that meets no error returns the name it
\* chose, and a call whose source does not exist returns None and writes
\* nothing.
C22_CollisionSafeCopy ==
    ret.op = "copy_image_to_directory" =>
        LET taken(n) == <<ExampleDirectory, n>> \in ret.before
            names == NameCandidates(ret.source.name)
        IN  /\ ret.before \subseteq image_files
            /\ ~ret.source.exists =>
                 ret.filename = None /\ image_files = ret.before
            /\ (ret.source.exists /\ ret.fault = "none") => ret.filename # None
            /\ ret.filename # None =>
                 /\ ~taken(ret.filename[1])
                 /\ image_files = ret.before \cup {<<ExampleDirectory, ret.filename[1]>>}
                 /\ \E k \in DOMAIN names :
                      /\ ret.filename[1] = names[k]
                      /\ \A j \in 1..(k - 1) : taken(names[j])

\* left.jpg and left_001.jpg were there, and the copy is left_002.jpg
C22_Witness ==
    /\ ret.op = "copy_image_to_directory"
    /\ ret.filename = Some(<<"left", "_", "0", "0", "2", ".jpg">>)
    /\ <<ExampleDirectory, <<"left", ".jpg">>>> \in ret.before
    /\ <<ExampleDirectory, <<"left", "_", "0", "0", "1", ".jpg">>>> \in image_files

----------------------------------------------------------------------------
(* Claims about add_bundle_from_images and the bundle index, checked under *)
(* SpecDialog                                                              *)

\* the list without its element at the 0-based position index
WithoutItem(list, index) ==
    SubSeq(list, 1, index) \o SubSeq(list, index + 2, Len(list))

\* C23: whenever add_bundle_from_images has added the bundle, the bundle
\* list afterwards is the list before with the new bundle put in at
\* current_bundle_index, whatever create_project or load_project left as
\* the starting state, the empty bundle list included.
C23_IndexIsNewBundle ==
    [][(/\ ret'.op = "add_bundle_from_images"
        /\ Len(current_project'[1].bundles.list)
             = Len(current_project[1].bundles.list) + 1)
        => /\ current_bundle_index' >= 0
           /\ current_bundle_index' < Len(current_project'[1].bundles.list)
           /\ WithoutItem(current_project'[1].bundles.list, current_bundle_index')
                = current_project[1].bundles.list]_vars

\* C24: add_bundle_from_images returns True exactly when the bundle list
\* in memory has grown by the new bundle and bundles.json holds that list;
\* when it returns False, the list in memory and bundles.json are as they
\* were before the call.
C24_TrueIffBundlePresent ==
    [][ret'.op = "add_bundle_from_images"
        => LET d == current_project[1].directory
               file == fs'[d].bundles
               added == /\ Len(current_project'[1].bundles.list)
                             = Len(current_project[1].bundles.list) + 1
                        /\ file.kind = "object" /\ file.key # None
                        /\ json_load(file.key[1], "utf-8").list
                             = current_project'[1].bundles.list
           IN  /\ ret'.ok <=> added
               /\ ~ret'.ok => /\ current_project'[1].bundles = current_project[1].bundles
                              /\ fs'[d].bundles = fs[d].bundles]_vars

\* C25: when add_bundle_from_images, called with 1 to 3 paths, returns
\* False, the image files in the project directories are those that were
\* there before the call.
C25_FailedAddCleansUp ==
    [][(ret'.op = "add_bundle_from_images" /\ ~ret'.ok /\ ret'.paths \in 1..3)
        => image_files' = image_files]_vars

\* C26: whenever the current project's bundle list is not empty,
\* 0 <= current_bundle_index < len(bundles).
C26_IndexInsideList ==
    (current_project # None /\ current_project[1].bundles.list # <<>>)
    => /\ 0 <= current_bundle_index
       /\ current_bundle_index < Len(current_project[1].bundles.list)

----------------------------------------------------------------------------
(* Claims about create_project and load_project together, checked under   *)
(* Spec                                                                    *)

\* C27: a load_project that meets no file-system error, run on the
\* directory of the project a successful create_project(T) has just made,
\* succeeds and yields the title T, no description and an empty bundle
\* list; a load_project on a directory that holds a bundles.json but no
\* readable project_metadata.json, as a failed create_project leaves it,
\* fails.
C27_CreateLoadRoundTrip ==
    [][ret'.op = "load_project"
        => /\ (/\ ret.op = "create_project" /\ ret.shape = "pair" /\ ret.ok
               /\ ret'.directory = Some(current_project[1].directory)
               /\ ret'.fault = "none")
              => /\ ret'.shape = "pair" /\ ret'.ok
                 /\ current_project'[1].directory = current_project[1].directory
                 /\ current_project'[1].project_metadata.title = ret.title
                 /\ current_project'[1].project_metadata.description = None
                 /\ current_project'[1].bundles.list = <<>>
           /\ (/\ ret'.directory[1] \in DOMAIN fs
               /\ is_copista_project(ret'.directory[1], fs)
               /\ fs[ret'.directory[1]].project_metadata.kind \in {"absent", "malformed"})
              => ~(ret'.shape = "pair" /\ ret'.ok)]_vars

\* C28: the directory a successful create_project writes into did not
\* exist before the call and is a proper child of the parent directory,
\* named slug or slug_NNN (the empty slug included); no create_project
\* call changes the bundles.json or project_metadata.json of a directory
\* that existed before it.
C28_NeverReusesALocation ==
    [][ret'.op = "create_project"
        => /\ \A x \in DOMAIN fs :
                /\ x \in DOMAIN fs'
                /\ fs'[x].bundles = fs[x].bundles
                /\ fs'[x].project_metadata = fs[x].project_metadata
           /\ (ret'.shape = "pair" /\ ret'.ok)
              => LET d == current_project'[1].directory
                     slug == IF ret'.title[1] = <<"My", " ", "Test", " ", "Project">>
                             THEN <<"my", "-", "test", "-", "project">>
                             ELSE <<>>
                 IN  /\ d \notin DOMAIN fs
                     /\ d[1] = "../example_projects/"
                     /\ d[2] # <<>>
                     /\ \/ d[2] = slug
                        \/ \E k \in {"1", "2", "3", "4", "5"} :
                              d[2] = slug \o <<"_", "0", "0", k>>]_vars

----------------------------------------------------------------------------
(* A claim about the camera controller, checked under SpecCamera *)

\* C29: capture_and_download, download_file, list_files_on_camera and
\* get_camera_config call the SDK only when the latest connect() returned
\* True and no disconnect() came after it; otherwise they return None (or
\* the empty list) and leave the SDK alone.  After disconnect(), camera
\* and context are both None, whether or not the SDK's exit call raised.
C29_GatedOnLiveConnection ==
    [][/\ ret'.op \in {"capture_and_download", "download_file",
                       "list_files_on_camera", "get_camera_config"}
          => /\ ret'.sdk => controller.live
             /\ ~controller.live => ret'.value \in {"None", "[]"}
       /\ ret'.op = "disconnect"
          => controller'.camera = "None" /\ controller'.context = "None"]_vars

----------------------------------------------------------------------------
(* A claim about the user manager, checked under SpecUsers *)

\* C30: current_user becomes a user only through a system-user login, a
\* login whose password hash equals the stored hash of an existing user,
\* or a registration of a new username whose save succeeded (editing the
\* profile keeps the user that is logged in and changes only the display
\* name); a failed
\* login or registration leaves current_user as it was, a logout makes it
\* None, a new UserManager starts with None, and authenticate_user returns
\* current_user as it is when the window goes.
C30_OnlyAuthenticatedUser ==
    [][LET before == user_manager
           after == user_manager'
       IN  /\ (after.current_user # before.current_user /\ after.current_user # None)
              => \/ ret'.op = "login_as_system_user"
                 \/ /\ ret'.op = "login_user"
                    /\ ret'.username \in DOMAIN before.users_data
                    /\ before.users_data[ret'.username].password_hash
                         = Some(<<"sha256", ret'.password>>)
                    /\ after.current_user = Some(before.users_data[ret'.username])
                 \/ /\ ret'.op = "register_user"
                    /\ ret'.username \notin DOMAIN before.users_data
                    /\ ret'.saved
                    /\ ret'.username \in DOMAIN after.file
                    /\ after.current_user = Some(after.file[ret'.username])
                 \/ /\ ret'.op = "save_profile_changes"
                    /\ before.current_user # None
                    /\ after.current_user =
                         Some([before.current_user[1] EXCEPT !.display_name =
                                 after.current_user[1].display_name])
           /\ (ret'.op \in {"login_user", "register_user"} /\ ~ret'.ok)
              => after.current_user = before.current_user
           /\ ret'.op = "logout" => after.current_user = None
           /\ (ret'.op = "authenticate_user" /\ ret'.step = "wait_window")
              => after.current_user = None
           /\ (ret'.op = "authenticate_user" /\ ret'.step = "done")
              => ret'.value = before.current_user]_vars

\* authenticate_user has returned a user that was registered with
\* password "q" and saved, in a session where a save of users.json failed
C30_Witness ==
    /\ ret.op = "authenticate_user" /\ ret.step = "done"
    /\ ret.value # None
    /\ ret.value[1].password_hash = Some(<<"sha256", "q">>)
    /\ ret.value[1].username \in DOMAIN user_manager.file
    /\ faults = MaxFaults

====
